---------------------------- MODULE Spec2Model ----------------------------
(***************************************************************************)
(* A model of the okteto workload lifecycle code:                          *)
(*   - pkg/k8s/deployments/translate.go  (translation of a deployment)     *)
(*   - pkg/k8s/volumes (volume claim creation and destruction)             *)
(*   - cmd/up/activate.go (activation and the readiness watcher)           *)
(*   - pkg/cmd/stack/destroy.go (stack destruction)                        *)
(* Each component is a state machine over its own variables; a             *)
(* specification of one component leaves the other components' variables   *)
(* at their initial values.                                                *)
(***************************************************************************)
EXTENDS Integers, Sequences, FiniteSets, TLC

VARIABLES
    \* TranslateEnvVars: the container's Env, the rule's Environment
    envC, envRule, envBase, envPc,
    \* translate: the model.Translation being translated, the mode of the
    \* call, the translation as first supplied, and the outcome of each call
    trT, trServerSide, trIn, trOuts,
    \* volumes: the claim in the cluster, whether a pod mounts it, the
    \* position of a running Destroy, the ticks elapsed since it started, the
    \* pending tick of its ticker, its context, its bookkeeping and the log
    \* of finished calls
    volPvc, volAttached, volPc, volElapsed, volTick, volCancelled, volCall,
    volLog,
    \* readiness watcher: its position, whether the session has a persistent
    \* volume, its context, the session statuses it wrote, the subscriptions
    \* it opened after the first of each stream, the items it handled, and
    \* what it returned
    wtPc, wtPersistentVolume, wtCancelled, wtStatus, wtSubs, wtLog, wtResult,
    \* stack Destroy: the cluster now and as Destroy found it, the services
    \* of the stack as the caller passed it, the stack's services now, the
    \* removeVolumes flag, the step Destroy is at, the requests it sent, the
    \* polls of its pod wait, its context, the step of destroy that failed,
    \* and what Destroy returned
    sdCluster, sdGiven, sdKeep, sdServices, sdRemoveVolumes, sdPc, sdOps,
    sdPolls, sdCancelled, sdFailed, sdResult,
    \* activate: the step it is at, the session (persistent volume, build
    \* flag), up.isRetry, the number of calls, the deployment of this call,
    \* up.isRetry as the call found it, the operations of this call, the task
    \* of initializeSyncthing, the queue up.hardTerminate, the calls of
    \* shouldRetry of this call, what each call returned, the calls whose
    \* command task has not sent its result yet, and the queue
    \* up.CommandResult
    acPc, acSession, acIsRetry, acAttempt, acD, acWasRetry, acOps, acSyncTask,
    acHardTerminate, acRetryLog, acResults, acCommandTasks, acCommandResult

envVars == <<envC, envRule, envBase, envPc>>
trVars == <<trT, trServerSide, trIn, trOuts>>
volVars == <<volPvc, volAttached, volPc, volElapsed, volTick, volCancelled,
             volCall, volLog>>

wtVars == <<wtPc, wtPersistentVolume, wtCancelled, wtStatus, wtSubs, wtLog,
            wtResult>>

sdVars == <<sdCluster, sdGiven, sdKeep, sdServices, sdRemoveVolumes, sdPc,
            sdOps, sdPolls, sdCancelled, sdFailed, sdResult>>

acVars == <<acPc, acSession, acIsRetry, acAttempt, acD, acWasRetry, acOps,
            acSyncTask, acHardTerminate, acRetryLog, acResults,
            acCommandTasks, acCommandResult>>

vars == <<envVars, trVars, volVars, wtVars, sdVars, acVars>>

\* What an action of one component leaves alone.
notEnv == <<trVars, volVars, wtVars, sdVars, acVars>>
notTr == <<envVars, volVars, wtVars, sdVars, acVars>>
notVol == <<envVars, trVars, wtVars, sdVars, acVars>>
notWatch == <<envVars, trVars, volVars, sdVars, acVars>>
notStack == <<envVars, trVars, volVars, wtVars, acVars>>
notActivate == <<envVars, trVars, volVars, wtVars, sdVars>>

(***************************************************************************)
(* Generic helpers                                                         *)
(***************************************************************************)
\* All sequences over S of length at most n.
SeqsUpTo(S, n) == UNION {[1..k -> S] : k \in 0..n}

Range(s) == {s[i] : i \in DOMAIN s}

(***************************************************************************)
(* translate.go: constants and small helpers                               *)
(***************************************************************************)
oktetoDeploymentAnnotation == "dev.okteto.com/deployment"
oktetoVersionAnnotation == "dev.okteto.com/version"
revisionAnnotation == "deployment.kubernetes.io/revision"
OktetoBinName == "okteto-bin"
oktetoSyncSecretVolume == "okteto-sync-secret"
oktetoDevSecretVolume == "okteto-dev-secret"
devReplicas == 1
devTerminationGracePeriodSeconds == 0

\* okLabels.*: the label keys and the version stamp used by translate.go
DevLabel == "dev.okteto.com"
InteractiveDevLabel == "interactive.dev.okteto.com"
DetachedDevLabel == "detached.dev.okteto.com"
OktetoVersion == "okteto-version"

\* fmt.Sprintf(oktetoSecretTemplate, name)
oktetoSecretTemplate(name) == <<"okteto-", name>>

\* A Go map[string]string as a function; setAnnotation / setLabel / delete.
EmptyMap == [k \in {} |-> ""]
SetKey(m, k, v) == [x \in DOMAIN m \cup {k} |-> IF x = k THEN v ELSE m[x]]
DelKey(m, k) == [x \in DOMAIN m \ {k} |-> m[x]]

\* TranslateDevAnnotations: every user annotation is set on the object.
TranslateDevAnnotations(m, annotations) ==
    [x \in DOMAIN m \cup DOMAIN annotations |->
        IF x \in DOMAIN annotations THEN annotations[x] ELSE m[x]]

(***************************************************************************)
(* encoding/json of a Deployment.  A document is a function from JSON      *)
(* paths to values: a field tagged omitempty is left out when it holds its *)
(* zero value, and a field missing from a document decodes to the zero     *)
(* value.  The dev.okteto.com/deployment annotation is kept in the field   *)
(* Manifest (no value, or one document), apart from the string-valued      *)
(* annotations.                                                            *)
(***************************************************************************)
ContainerJSON ==
    [Name |-> "name", Image |-> "image", ImagePullPolicy |-> "imagePullPolicy",
     WorkingDir |-> "workingDir", Command |-> "command", Args |-> "args",
     LivenessProbe |-> "livenessProbe", ReadinessProbe |-> "readinessProbe",
     StartupProbe |-> "startupProbe", Requests |-> "resources.requests",
     Limits |-> "resources.limits", Env |-> "env",
     VolumeMounts |-> "volumeMounts", SecurityContext |-> "securityContext"]

\* "str": a string, omitted when ""; "coll": a slice, map or pointer, omitted
\* when empty or nil; "keep": always written.
ContainerKind ==
    [Name |-> "keep", Image |-> "str", ImagePullPolicy |-> "str",
     WorkingDir |-> "str", Command |-> "coll", Args |-> "coll",
     LivenessProbe |-> "coll", ReadinessProbe |-> "coll",
     StartupProbe |-> "coll", Requests |-> "coll", Limits |-> "coll",
     Env |-> "coll", VolumeMounts |-> "coll", SecurityContext |-> "coll"]

DeploymentJSON ==
    [Name |-> "metadata.name", Labels |-> "metadata.labels",
     Annotations |-> "metadata.annotations",
     Manifest |-> "metadata.annotations[dev.okteto.com/deployment]",
     Replicas |-> "spec.replicas",
     TplLabels |-> "spec.template.metadata.labels",
     TplAnnotations |-> "spec.template.metadata.annotations",
     Volumes |-> "spec.template.spec.volumes",
     InitContainers |-> "spec.template.spec.initContainers",
     Containers |-> "spec.template.spec.containers",
     TerminationGracePeriodSeconds |->
         "spec.template.spec.terminationGracePeriodSeconds",
     ServiceAccountName |-> "spec.template.spec.serviceAccountName",
     SecurityContext |-> "spec.template.spec.securityContext",
     Affinity |-> "spec.template.spec.affinity",
     Tolerations |-> "spec.template.spec.tolerations",
     Status |-> "status"]

DeploymentKind ==
    [Name |-> "str", Labels |-> "coll", Annotations |-> "coll",
     Manifest |-> "coll", Replicas |-> "coll", TplLabels |-> "coll",
     TplAnnotations |-> "coll", Volumes |-> "coll", InitContainers |-> "coll",
     Containers |-> "keep", TerminationGracePeriodSeconds |-> "coll",
     ServiceAccountName |-> "str", SecurityContext |-> "coll",
     Affinity |-> "coll", Tolerations |-> "coll", Status |-> "keep"]

Omitted(kind, v) ==
    CASE kind = "str" -> v = ""
      [] kind = "coll" -> v = <<>>
      [] OTHER -> FALSE

ZeroValue(kind, field) ==
    CASE kind = "str" -> ""
      [] kind = "coll" -> <<>>
      [] field = "Status" -> 0
      [] OTHER -> <<>>

MarshalObject(o, json, kind, enc(_, _)) ==
    LET present == {f \in DOMAIN json : ~Omitted(kind[f], o[f])}
    IN  [j \in {json[f] : f \in present} |->
            LET f == CHOOSE g \in present : json[g] = j IN enc(f, o[f])]

UnmarshalObject(doc, json, kind, dec(_, _)) ==
    [f \in DOMAIN json |->
        IF json[f] \in DOMAIN doc THEN dec(f, doc[json[f]])
        ELSE ZeroValue(kind[f], f)]

Identity(f, v) == v

MarshalContainer(c) == MarshalObject(c, ContainerJSON, ContainerKind, Identity)
UnmarshalContainer(doc) ==
    UnmarshalObject(doc, ContainerJSON, ContainerKind, Identity)

EncodeField(f, v) ==
    IF f \in {"Containers", "InitContainers"}
    THEN [i \in DOMAIN v |-> MarshalContainer(v[i])]
    ELSE v

DecodeField(f, v) ==
    IF f \in {"Containers", "InitContainers"}
    THEN [i \in DOMAIN v |-> UnmarshalContainer(v[i])]
    ELSE v

\* json.Marshal(t.Deployment)
Marshal(d) == MarshalObject(d, DeploymentJSON, DeploymentKind, EncodeField)

\* A manifest that is not the JSON of a deployment.
CorruptManifest == [j \in {"#not-json"} |-> "x"]

\* json.Unmarshal([]byte(manifest), dOrig): the decoded deployment, or an
\* error.
UnmarshalOK(doc) == "#not-json" \notin DOMAIN doc
Unmarshal(doc) == UnmarshalObject(doc, DeploymentJSON, DeploymentKind, DecodeField)


(***************************************************************************)
(* TranslateEnvVars (translate.go:297-313)                                 *)
(***************************************************************************)
MaxEnvLen == 2

EnvNames == {"A", "B", "C"}

\* An apiv1.EnvVar of the base container: a literal Value or a ValueFrom
\* reference (the two are mutually exclusive in the cluster API).
BaseEnvVars ==
    {[Name |-> n, Value |-> v, ValueFrom |-> ""] : n \in EnvNames, v \in {"b1", "b2"}}
    \cup {[Name |-> n, Value |-> "", ValueFrom |-> "ref"] : n \in EnvNames}

\* A model.EnvVar of the rule.
RuleEnvVars == {[Name |-> n, Value |-> v] : n \in EnvNames, v \in {"r1", "r2"}}

\* unusedDevEnvVar after the first loop of TranslateEnvVars: a later entry of
\* the rule overwrites an earlier one of the same name.
RECURSIVE EnvMap(_, _)
EnvMap(env, i) ==
    IF i = 0 THEN [n \in {} |-> ""]
    ELSE LET m == EnvMap(env, i - 1)
         IN  [n \in DOMAIN m \cup {env[i].Name} |->
                 IF n = env[i].Name THEN env[i].Value ELSE m[n]]

\* The second loop: c.Env[i] is replaced when its name is still in the map,
\* and the name is then deleted from the map.
RECURSIVE EnvOverride(_, _, _, _)
EnvOverride(env, m, unused, i) ==
    IF i > Len(env) THEN [env |-> env, unused |-> unused]
    ELSE IF env[i].Name \in unused
         THEN EnvOverride(
                  [env EXCEPT ![i] = [Name |-> env[i].Name,
                                      Value |-> m[env[i].Name],
                                      ValueFrom |-> ""]],
                  m, unused \ {env[i].Name}, i + 1)
         ELSE EnvOverride(env, m, unused, i + 1)

\* The third loop: every rule entry whose name is still in the map is
\* appended, with the map's value.
RECURSIVE EnvAppend(_, _, _, _, _)
EnvAppend(env, renv, m, unused, i) ==
    IF i > Len(renv) THEN env
    ELSE IF renv[i].Name \in unused
         THEN EnvAppend(Append(env, [Name |-> renv[i].Name,
                                     Value |-> m[renv[i].Name],
                                     ValueFrom |-> ""]),
                        renv, m, unused, i + 1)
         ELSE EnvAppend(env, renv, m, unused, i + 1)

TranslateEnvVars(env, renv) ==
    LET m == EnvMap(renv, Len(renv))
        o == EnvOverride(env, m, DOMAIN m, 1)
    IN  EnvAppend(o.env, renv, m, o.unused, 1)

(***************************************************************************)
(* translate.go: the translation of one container and of the pod spec.     *)
(* A pointer is a sequence of length 0 (nil) or 1.                         *)
(***************************************************************************)
ResourceMemory == "memory"
ResourceCPU == "cpu"
ResourceAMDGPU == "amd.com/gpu"
ResourceNVIDIAGPU == "nvidia.com/gpu"

OktetoUpInitContainerRequestsCPU == "10m"
OktetoUpInitContainerRequestsMemory == "10Mi"
OktetoUpInitContainerLimitsCPU == "30m"
OktetoUpInitContainerLimitsMemory == "30Mi"

\* GetDevContainer: the index of the container (0 for nil).  An empty name
\* is &spec.Containers[0], which panics (-1) on an empty slice.
GetDevContainer(containers, name) ==
    IF name = ""
    THEN IF Len(containers) = 0 THEN -1 ELSE 1
    ELSE IF \E i \in DOMAIN containers : containers[i].Name = name
         THEN CHOOSE i \in DOMAIN containers :
                  /\ containers[i].Name = name
                  /\ \A j \in 1..(i - 1) : containers[j].Name # name
         ELSE 0

TranslateProbes(c, h) ==
    [c EXCEPT !.LivenessProbe = IF ~h.Liveness THEN <<>> ELSE @,
              !.ReadinessProbe = IF ~h.Readiness THEN <<>> ELSE @,
              !.StartupProbe = IF ~h.Startup THEN <<>> ELSE @]

\* One of the two halves of TranslateResources: the four known resource
\* names are copied from the rule, every other key of the target is kept.
MergeResourceList(target, r) ==
    LET known == {ResourceMemory, ResourceCPU, ResourceAMDGPU, ResourceNVIDIAGPU}
        copied == DOMAIN r \cap known
    IN  [k \in DOMAIN target \cup copied |->
            IF k \in copied THEN r[k] ELSE target[k]]

TranslateResources(c, r) ==
    [c EXCEPT !.Requests = MergeResourceList(@, r.Requests),
              !.Limits = MergeResourceList(@, r.Limits)]

RECURSIVE RuleVolumeMounts(_, _)
RuleVolumeMounts(volumes, i) ==
    IF i = 0 THEN <<>>
    ELSE Append(RuleVolumeMounts(volumes, i - 1),
                [Name |-> volumes[i].Name, MountPath |-> volumes[i].MountPath,
                 SubPath |-> volumes[i].SubPath])

TranslateVolumeMounts(c, rule) ==
    LET own == c.VolumeMounts \o RuleVolumeMounts(rule.Volumes, Len(rule.Volumes))
        sync == Append(own, [Name |-> oktetoSyncSecretVolume,
                             MountPath |-> "/var/syncthing/secret/",
                             SubPath |-> ""])
        secrets == Append(sync, [Name |-> oktetoDevSecretVolume,
                                 MountPath |-> "/var/okteto/secret/",
                                 SubPath |-> ""])
    IN  [c EXCEPT !.VolumeMounts =
            IF rule.Marker = "" THEN own
            ELSE IF Len(rule.Secrets) > 0 THEN secrets ELSE sync]

EmptySecurityContext ==
    [RunAsUser |-> <<>>, RunAsGroup |-> <<>>, RunAsNonRoot |-> <<>>,
     ReadOnlyRootFilesystem |-> <<>>, Privileged |-> <<>>,
     Capabilities |-> <<>>]

TranslateContainerSecurityContext(c, s) ==
    IF s = <<>> THEN c
    ELSE
      LET sc0 == IF c.SecurityContext = <<>> THEN EmptySecurityContext
                 ELSE c.SecurityContext[1]
          sc1 == IF s[1].RunAsUser = <<>> THEN sc0
                 ELSE [sc0 EXCEPT !.RunAsUser = s[1].RunAsUser,
                                  !.RunAsNonRoot =
                                      IF s[1].RunAsUser[1] = 0 THEN <<FALSE>> ELSE @]
          sc2 == IF s[1].RunAsGroup = <<>> THEN sc1
                 ELSE [sc1 EXCEPT !.RunAsGroup = s[1].RunAsGroup,
                                  !.RunAsNonRoot =
                                      IF s[1].RunAsGroup[1] = 0 THEN <<FALSE>> ELSE @]
          caps0 == IF sc2.Capabilities = <<>> THEN [Add |-> <<>>, Drop |-> <<>>]
                   ELSE sc2.Capabilities[1]
          sc3 == IF s[1].Capabilities = <<>> THEN sc2
                 ELSE [sc2 EXCEPT
                          !.ReadOnlyRootFilesystem = <<>>,
                          !.Capabilities =
                              <<[Add |-> caps0.Add \o s[1].Capabilities[1].Add,
                                 Drop |-> caps0.Drop \o s[1].Capabilities[1].Drop]>>]
      IN  [c EXCEPT !.SecurityContext = <<sc3>>]

\* TranslateDevContainer, given the rule after its Image default (line 197).
TranslateDevContainer(c, rule) ==
    LET c1 == [c EXCEPT !.Image = rule.Image,
                        !.ImagePullPolicy = rule.ImagePullPolicy,
                        !.WorkingDir = IF rule.WorkDir # "" THEN rule.WorkDir ELSE @,
                        !.Command = IF Len(rule.Command) > 0 THEN rule.Command ELSE @,
                        !.Args = IF Len(rule.Command) > 0 THEN rule.Args ELSE @]
        c2 == TranslateProbes(c1, rule.Probes)
        c3 == TranslateResources(c2, rule.Resources)
        c4 == [c3 EXCEPT !.Env = TranslateEnvVars(@, rule.Environment)]
        c5 == TranslateVolumeMounts(c4, rule)
    IN  TranslateContainerSecurityContext(c5, rule.SecurityContext)

\* rule.Image defaults to the container's image (TranslateDevContainer).
RuleImageDefault(c, rule) ==
    [rule EXCEPT !.Image = IF @ = "" THEN c.Image ELSE @]

setDefaultResourceValueIfNotPresent(resourceList, resourceName, value) ==
    IF resourceName \in DOMAIN resourceList THEN resourceList
    ELSE SetKey(resourceList, resourceName, value)

TranslateInitContainer(ic) ==
    [ic EXCEPT
        !.Limits = setDefaultResourceValueIfNotPresent(
                       setDefaultResourceValueIfNotPresent(
                           @, ResourceMemory, OktetoUpInitContainerLimitsMemory),
                       ResourceCPU, OktetoUpInitContainerLimitsCPU),
        !.Requests = setDefaultResourceValueIfNotPresent(
                       setDefaultResourceValueIfNotPresent(
                           @, ResourceMemory, OktetoUpInitContainerRequestsMemory),
                       ResourceCPU, OktetoUpInitContainerRequestsCPU)]

HasVolume(volumes, name) == \E i \in DOMAIN volumes : volumes[i].Name = name

NoVolumeSource == [EmptyDir |-> FALSE, ClaimName |-> "", Secret |-> <<>>]

RECURSIVE TranslateOktetoVolumesFrom(_, _, _)
TranslateOktetoVolumesFrom(volumes, rule, i) ==
    IF i > Len(rule.Volumes) THEN volumes
    ELSE LET rV == rule.Volumes[i]
             v == IF ~rule.PersistentVolume /\ rV.IsSyncthing
                  THEN [Name |-> rV.Name,
                        Source |-> [NoVolumeSource EXCEPT !.EmptyDir = TRUE]]
                  ELSE [Name |-> rV.Name,
                        Source |-> [NoVolumeSource EXCEPT !.ClaimName = rV.Name]]
         IN  TranslateOktetoVolumesFrom(
                 IF HasVolume(volumes, rV.Name) THEN volumes ELSE Append(volumes, v),
                 rule, i + 1)

TranslateOktetoVolumes(d, rule) ==
    [d EXCEPT !.Volumes = TranslateOktetoVolumesFrom(@, rule, 1)]

TranslateOktetoBinVolume(d) ==
    IF HasVolume(d.Volumes, OktetoBinName) THEN d
    ELSE [d EXCEPT !.Volumes =
             Append(@, [Name |-> OktetoBinName,
                        Source |-> [NoVolumeSource EXCEPT !.EmptyDir = TRUE]])]

TranslateOktetoBinVolumeMounts(c) ==
    IF \E i \in DOMAIN c.VolumeMounts : c.VolumeMounts[i].Name = OktetoBinName
    THEN c
    ELSE [c EXCEPT !.VolumeMounts =
             Append(@, [Name |-> OktetoBinName, MountPath |-> "/var/okteto/bin",
                        SubPath |-> ""])]

TranslatePodSecurityContext(d, s) ==
    IF s = <<>> THEN d
    ELSE LET psc == IF d.SecurityContext = <<>>
                    THEN [FSGroup |-> <<>>, RunAsNonRoot |-> <<>>]
                    ELSE d.SecurityContext[1]
         IN  [d EXCEPT !.SecurityContext =
                 <<IF s[1].FSGroup # <<>>
                   THEN [psc EXCEPT !.FSGroup = s[1].FSGroup] ELSE psc>>]

TranslatePodServiceAccount(d, sa) ==
    IF sa # "" THEN [d EXCEPT !.ServiceAccountName = sa] ELSE d

\* The zero apiv1.Container.
EmptyContainer ==
    [Name |-> "", Image |-> "", ImagePullPolicy |-> "", WorkingDir |-> "",
     Command |-> <<>>, Args |-> <<>>, LivenessProbe |-> <<>>,
     ReadinessProbe |-> <<>>, StartupProbe |-> <<>>, Requests |-> <<>>,
     Limits |-> <<>>, Env |-> <<>>, VolumeMounts |-> <<>>,
     SecurityContext |-> <<>>]

\* m[k] of a Go map: the zero value when the key is absent.
MapGet(m, k) == IF k \in DOMAIN m THEN m[k] ELSE "0"

TranslateOktetoInitBinContainer(initContainer, d) ==
    LET c == [EmptyContainer EXCEPT
                 !.Name = OktetoBinName,
                 !.Image = initContainer.Image,
                 !.ImagePullPolicy = "IfNotPresent",
                 !.Command = <<"sh", "-c", "cp /usr/local/bin/* /okteto/bin">>,
                 !.VolumeMounts = <<[Name |-> OktetoBinName,
                                     MountPath |-> "/okteto/bin",
                                     SubPath |-> ""]>>,
                 !.Requests =
                     [k \in {ResourceCPU, ResourceMemory} |->
                         MapGet(initContainer.Requests, k)],
                 !.Limits =
                     [k \in {ResourceCPU, ResourceMemory} |->
                         MapGet(initContainer.Limits, k)]]
    IN  [d EXCEPT !.InitContainers = Append(@, c)]

SecretItem(key) == [Key |-> key, Path |-> key, Mode |-> "0444"]

TranslateOktetoSyncSecret(d, name) ==
    IF HasVolume(d.Volumes, oktetoSyncSecretVolume) THEN d
    ELSE [d EXCEPT !.Volumes =
             Append(@, [Name |-> oktetoSyncSecretVolume,
                        Source |->
                            [NoVolumeSource EXCEPT !.Secret =
                                <<[SecretName |-> oktetoSecretTemplate(name),
                                   Items |-> <<SecretItem("config.xml"),
                                               SecretItem("cert.pem"),
                                               SecretItem("key.pem")>>]>>]])]

TranslateOktetoDevSecret(d, secret, secrets) ==
    IF Len(secrets) = 0 \/ HasVolume(d.Volumes, oktetoDevSecretVolume) THEN d
    ELSE [d EXCEPT !.Volumes =
             Append(@, [Name |-> oktetoDevSecretVolume,
                        Source |->
                            [NoVolumeSource EXCEPT !.Secret =
                                <<[SecretName |-> oktetoSecretTemplate(secret),
                                   Items |->
                                       [i \in DOMAIN secrets |->
                                           [Key |-> secrets[i].KeyName,
                                            Path |-> secrets[i].FileName,
                                            Mode |-> secrets[i].Mode]]]>>]])]

\* TranslateDevTolerations
TranslateDevTolerations(d, tolerations) ==
    [d EXCEPT !.Tolerations = @ \o tolerations]

\* TranslatePodAffinity: one more required pod-affinity term.
TranslatePodAffinity(d, name) ==
    [d EXCEPT !.Affinity =
        Append(@, [MatchLabels |-> SetKey(EmptyMap, InteractiveDevLabel, name),
                   TopologyKey |-> "kubernetes.io/hostname"])]


(***************************************************************************)
(* translate (translate.go:60-128)                                         *)
(***************************************************************************)
ErrContainerNotFound == "Container not found in deployment"
ErrUnmarshal == "json: cannot unmarshal"
ErrPanic == "panic: index out of range"

\* Lines 61-67: every rule's container is resolved and its name written
\* back to the rule.
RECURSIVE ResolveRules(_, _, _)
ResolveRules(rules, containers, i) ==
    IF i > Len(rules) THEN [rules |-> rules, err |-> ""]
    ELSE LET idx == GetDevContainer(containers, rules[i].Container)
         IN  IF idx = 0 THEN [rules |-> rules, err |-> ErrContainerNotFound]
             ELSE IF idx = -1 THEN [rules |-> rules, err |-> ErrPanic]
             ELSE ResolveRules(
                      [rules EXCEPT ![i].Container = containers[idx].Name],
                      containers, i + 1)

commonTranslation(d, t) ==
    [d EXCEPT
        !.Annotations = SetKey(TranslateDevAnnotations(@, t.Annotations),
                               oktetoVersionAnnotation, OktetoVersion),
        !.Labels = SetKey(@, DevLabel, "true"),
        !.TplLabels = IF t.Interactive
                      THEN SetKey(@, InteractiveDevLabel, t.Name)
                      ELSE SetKey(@, DetachedDevLabel, t.Name),
        !.Replicas = <<devReplicas>>]

\* setTranslationAsAnnotation: the translation is stamped on the pod
\* template for the server-side component.
setTranslationAsAnnotation(d, t) ==
    [d EXCEPT !.TplAnnotations = SetKey(@, "dev.okteto.com/translation", t.Name)]

\* Lines 109-126: the rules are applied in order to the deployment.
RECURSIVE TranslateRules(_, _, _, _)
TranslateRules(d, rules, name, i) ==
    IF i > Len(rules) THEN [d |-> d, rules |-> rules, err |-> ""]
    ELSE
      LET idx == GetDevContainer(d.Containers, rules[i].Container)
      IN  IF idx = 0 THEN [d |-> d, rules |-> rules, err |-> ErrContainerNotFound]
          ELSE IF idx = -1 THEN [d |-> d, rules |-> rules, err |-> ErrPanic]
          ELSE
            LET r1 == RuleImageDefault(d.Containers[idx], rules[i])
                c1 == TranslateDevContainer(d.Containers[idx], r1)
                rule == [r1 EXCEPT !.InitContainer = TranslateInitContainer(@)]
                d1 == [d EXCEPT !.Containers[idx] = c1]
                d2 == TranslateOktetoVolumes(d1, rule)
                d3 == TranslatePodSecurityContext(d2, rule.SecurityContext)
                d4 == TranslatePodServiceAccount(d3, rule.ServiceAccount)
                d5 == TranslateOktetoDevSecret(d4, name, rule.Secrets)
                d6 == [d5 EXCEPT !.Containers[idx] =
                          TranslateOktetoBinVolumeMounts(@)]
                d7 == TranslateOktetoInitBinContainer(rule.InitContainer, d6)
                d8 == TranslateOktetoBinVolume(d7)
            IN  TranslateRules(IF rule.IsMainDevContainer THEN d8 ELSE d5,
                               [rules EXCEPT ![i] = rule], name, i + 1)

\* A translate that keeps translating the deployment it is given.
RestoreOriginalSkipped(d) ==
    [d EXCEPT !.Annotations = DelKey(@, revisionAnnotation)]

\* Lines 69-79: the stored original replaces the deployment, and the
\* revision annotation is deleted.
RestoreOriginal(d) ==
    LET d0 == IF d.Manifest # <<>> THEN Unmarshal(d.Manifest[1]) ELSE d
    IN  [d0 EXCEPT !.Annotations = DelKey(@, revisionAnnotation)]

\* A translate that takes its snapshot after the deployment-level changes.
TranslatePodSnapshotLate(d1, t) ==
    LET d2 == commonTranslation([d1 EXCEPT !.Status = 0], t)
        d3 == [d2 EXCEPT !.Manifest = <<Marshal(d2)>>]
        d5 == [d3 EXCEPT
                  !.TplLabels = SetKey(@, DevLabel, "true"),
                  !.TplAnnotations = TranslateDevAnnotations(@, t.Annotations)]
        d6 == TranslateDevTolerations(d5, t.Tolerations)
        d7 == [d6 EXCEPT !.TerminationGracePeriodSeconds =
                  <<devTerminationGracePeriodSeconds>>]
    IN  IF t.Interactive THEN TranslateOktetoSyncSecret(d7, t.Name)
        ELSE TranslatePodAffinity(d7, t.Name)

\* A translate that adds the affinity term for interactive sessions.
TranslatePodAffinityWhenInteractive(d1, t) ==
    LET d2 == [d1 EXCEPT !.Status = 0]
        d3 == [d2 EXCEPT !.Manifest = <<Marshal(d2)>>]
        d4 == commonTranslation(d3, t)
        d5 == [d4 EXCEPT
                  !.TplLabels = SetKey(@, DevLabel, "true"),
                  !.TplAnnotations = TranslateDevAnnotations(@, t.Annotations)]
        d6 == TranslateDevTolerations(d5, t.Tolerations)
        d7 == [d6 EXCEPT !.TerminationGracePeriodSeconds =
                  <<devTerminationGracePeriodSeconds>>]
    IN  IF t.Interactive THEN TranslatePodAffinity(d7, t.Name)
        ELSE TranslateOktetoSyncSecret(d7, t.Name)

\* Lines 91-108: the snapshot and the pod-level translation.
TranslatePod(d1, t) ==
    LET d2 == [d1 EXCEPT !.Status = 0]
        d3 == [d2 EXCEPT !.Manifest = <<Marshal(d2)>>]
        d4 == commonTranslation(d3, t)
        d5 == [d4 EXCEPT
                  !.TplLabels = SetKey(@, DevLabel, "true"),
                  !.TplAnnotations = TranslateDevAnnotations(@, t.Annotations)]
        d6 == TranslateDevTolerations(d5, t.Tolerations)
        d7 == [d6 EXCEPT !.TerminationGracePeriodSeconds =
                  <<devTerminationGracePeriodSeconds>>]
    IN  IF t.Interactive THEN TranslateOktetoSyncSecret(d7, t.Name)
        ELSE TranslatePodAffinity(d7, t.Name)

\* translate(t, c, isOktetoNamespace); serverSide is
\* c != nil && isOktetoNamespace with OKTETO_CLIENTSIDE_TRANSLATION unset.
translate(t, serverSide) ==
    LET r == ResolveRules(t.Rules, t.Deployment.Containers, 1)
        t1 == [t EXCEPT !.Rules = r.rules]
    IN  IF r.err # "" THEN [t |-> t1, err |-> r.err]
        ELSE IF t.Deployment.Manifest # <<>> /\ ~UnmarshalOK(t.Deployment.Manifest[1])
        THEN [t |-> t1, err |-> ErrUnmarshal]
        ELSE
          LET d1 == RestoreOriginal(t.Deployment)
          IN  IF serverSide
              THEN [t |-> [t1 EXCEPT !.Deployment =
                              setTranslationAsAnnotation(
                                  commonTranslation(d1, t), t)],
                    err |-> ""]
              ELSE LET o == TranslateRules(TranslatePod(d1, t), r.rules, t.Name, 1)
                   IN  [t |-> [t1 EXCEPT !.Deployment = o.d, !.Rules = o.rules],
                        err |-> o.err]


(***************************************************************************)
(* The translations supplied to translate                                  *)
(***************************************************************************)
MaxRules == 2
MaxTranslateCalls == 2

BaseApi(withEnv, decorated) ==
    [EmptyContainer EXCEPT
        !.Name = "api", !.Image = "prod:1", !.ImagePullPolicy = "IfNotPresent",
        !.Command = <<"serve">>, !.Args = <<"--port=80">>,
        !.LivenessProbe = <<"http">>, !.ReadinessProbe = <<"http">>,
        !.Requests = SetKey(SetKey(EmptyMap, ResourceCPU, "100m"),
                            "ephemeral-storage", "1Gi"),
        !.Env = IF withEnv
                THEN <<[Name |-> "A", Value |-> "b1", ValueFrom |-> ""],
                       [Name |-> "B", Value |-> "", ValueFrom |-> "ref"]>>
                ELSE <<>>,
        !.VolumeMounts = IF decorated
                         THEN <<[Name |-> "data", MountPath |-> "/var/lib",
                                 SubPath |-> ""]>>
                         ELSE <<>>,
        !.SecurityContext =
            IF decorated
            THEN <<[EmptySecurityContext EXCEPT
                       !.RunAsNonRoot = <<TRUE>>,
                       !.ReadOnlyRootFilesystem = <<TRUE>>,
                       !.Capabilities = <<[Add |-> <<"NET_ADMIN">>,
                                           Drop |-> <<>>]>>]>>
            ELSE <<>>]

BaseDb == [EmptyContainer EXCEPT !.Name = "db", !.Image = "db:1"]

\* A deployment as the cluster (live) or a manifest (not live) gives it.
\* Besides these translate is given a deployment whose annotation does not
\* decode, one without containers, one that has a volume and an init
\* container named okteto-bin of its own, and one that has gained a
\* container since the original in its annotation was stored.
BaseDeployment(two, withEnv, live, decorated) ==
    [Name |-> "web",
     Labels |-> SetKey(EmptyMap, "app", "web"),
     Annotations |-> IF live THEN SetKey(EmptyMap, revisionAnnotation, "7")
                     ELSE EmptyMap,
     Manifest |-> <<>>,
     Replicas |-> <<3>>,
     TplLabels |-> SetKey(EmptyMap, "app", "web"),
     TplAnnotations |-> EmptyMap,
     Volumes |-> IF decorated
                 THEN <<[Name |-> "data",
                         Source |-> [NoVolumeSource EXCEPT !.ClaimName = "data"]]>>
                 ELSE <<>>,
     InitContainers |-> IF decorated
                        THEN <<[EmptyContainer EXCEPT !.Name = "setup",
                                                      !.Image = "busybox"]>>
                        ELSE <<>>,
     Containers |-> IF two THEN <<BaseApi(withEnv, decorated), BaseDb>>
                    ELSE <<BaseApi(withEnv, decorated)>>,
     TerminationGracePeriodSeconds |-> <<30>>,
     ServiceAccountName |-> "",
     SecurityContext |-> <<>>,
     Affinity |-> IF decorated
                  THEN <<[MatchLabels |-> SetKey(EmptyMap, "tier", "cache"),
                          TopologyKey |-> "zone"]>>
                  ELSE <<>>,
     Tolerations |-> IF decorated THEN <<"gpu-node">> ELSE <<>>,
     Status |-> IF live THEN 5 ELSE 0]

BaseDeployments ==
    {BaseDeployment(two, decorated, live, decorated) :
        two \in BOOLEAN, live \in BOOLEAN, decorated \in BOOLEAN}
    \cup {[BaseDeployment(FALSE, FALSE, TRUE, FALSE) EXCEPT
              !.Manifest = <<CorruptManifest>>]}
    \cup {[BaseDeployment(FALSE, FALSE, TRUE, FALSE) EXCEPT
              !.Containers = <<>>]}
    \cup {[BaseDeployment(FALSE, FALSE, TRUE, FALSE) EXCEPT
              !.Volumes = <<[Name |-> OktetoBinName,
                             Source |-> [NoVolumeSource EXCEPT
                                            !.EmptyDir = TRUE]]>>,
              !.InitContainers = <<[EmptyContainer EXCEPT
                                       !.Name = OktetoBinName,
                                       !.Image = "okteto/bin:0"]>>]}
    \cup {[BaseDeployment(TRUE, FALSE, TRUE, FALSE) EXCEPT
              !.Manifest = <<Marshal(BaseDeployment(FALSE, FALSE, FALSE,
                                                    FALSE))>>]}

\* A model.TranslationRule: the plain rule sets nothing but the target, the
\* rich one sets every override.
Rule(container, image, main, rich) ==
    [Container |-> container,
     Image |-> image,
     ImagePullPolicy |-> IF rich THEN "Always" ELSE "",
     WorkDir |-> IF rich THEN "/src" ELSE "",
     Command |-> IF rich THEN <<"bash">> ELSE <<>>,
     Args |-> <<>>,
     Probes |-> [Liveness |-> FALSE, Readiness |-> rich, Startup |-> FALSE],
     Resources |-> [Requests |-> IF rich
                                 THEN SetKey(EmptyMap, ResourceMemory, "1Gi")
                                 ELSE EmptyMap,
                    Limits |-> IF rich
                               THEN SetKey(EmptyMap, ResourceNVIDIAGPU, "1")
                               ELSE EmptyMap],
     Environment |-> IF rich
                     THEN <<[Name |-> "A", Value |-> "r1"],
                            [Name |-> "C", Value |-> "r2"]>>
                     ELSE <<>>,
     Volumes |-> IF rich
                 THEN <<[Name |-> "data", MountPath |-> "/data", SubPath |-> "",
                         IsSyncthing |-> FALSE],
                        [Name |-> "sync", MountPath |-> "/var/syncthing",
                         SubPath |-> "syncthing", IsSyncthing |-> TRUE]>>
                 ELSE <<>>,
     Marker |-> IF rich THEN "okteto.marker" ELSE "",
     Secrets |-> IF rich
                 THEN <<[KeyName |-> "dev-secret-id", FileName |-> "id",
                         Mode |-> "0400"]>>
                 ELSE <<>>,
     SecurityContext |->
         IF rich
         THEN <<[RunAsUser |-> <<0>>, RunAsGroup |-> <<>>, FSGroup |-> <<1000>>,
                 Capabilities |-> <<[Add |-> <<"SYS_PTRACE">>, Drop |-> <<>>]>>]>>
         ELSE <<>>,
     ServiceAccount |-> IF rich THEN "dev-sa" ELSE "",
     PersistentVolume |-> rich,
     InitContainer |-> [Image |-> "okteto/bin:1",
                        Requests |-> IF rich
                                     THEN SetKey(EmptyMap, ResourceCPU, "20m")
                                     ELSE EmptyMap,
                        Limits |-> EmptyMap],
     IsMainDevContainer |-> main]

\* The rule of the main development container sets every override.
FirstRules ==
    {Rule(c, i, m, m) : c \in {"", "api", "db", "worker"},
                        i \in {"", "dev:latest"}, m \in BOOLEAN}

\* The rules of the services that share the deployment with the main one.
ExtraRules == {Rule("db", "dev:latest", FALSE, TRUE), Rule("api", "", FALSE, TRUE)}

RuleLists ==
    UNION {{rs \in [1..k -> FirstRules \cup ExtraRules] :
               /\ rs[1] \in FirstRules
               /\ \A i \in 2..k : rs[i] \in ExtraRules} : k \in 1..MaxRules}

Translations ==
    {[Name |-> "web", Deployment |-> d, Rules |-> rs, Interactive |-> i,
      Annotations |-> IF opts THEN SetKey(EmptyMap, "team", "dev") ELSE EmptyMap,
      Tolerations |-> IF opts THEN <<"dev-node">> ELSE <<>>] :
        d \in BaseDeployments, rs \in RuleLists, i \in BOOLEAN, opts \in BOOLEAN}

TrInit ==
    /\ trIn \in Translations
    /\ trT = trIn
    /\ trServerSide \in BOOLEAN
    /\ trOuts = <<>>

TrIdle ==
    /\ trIn = <<>>
    /\ trT = <<>>
    /\ trServerSide = FALSE
    /\ trOuts = <<>>

\* One call of translate on the translation t0; what it was called on and
\* what it left are recorded.
TranslateCall(t0) ==
    LET res == translate(t0, trServerSide)
    IN  /\ trT' = res.t
        /\ trOuts' = Append(trOuts, [err |-> res.err,
                                     given |-> t0.Deployment,
                                     d |-> res.t.Deployment,
                                     rules |-> res.t.Rules])
        /\ UNCHANGED <<trIn, trServerSide>>

\* The first translation of the supplied deployment.
Translate ==
    /\ trIn # <<>>
    /\ trOuts = <<>>
    /\ TranslateCall(trT)
    /\ UNCHANGED notTr

\* A later translation of the deployment the previous call produced, with
\* the rules as that call left them or built afresh from the same manifest.
Retranslate ==
    /\ trOuts # <<>>
    /\ Len(trOuts) < MaxTranslateCalls
    /\ trOuts[Len(trOuts)].err = ""
    /\ \E fresh \in BOOLEAN :
          TranslateCall(IF fresh THEN [trT EXCEPT !.Rules = trIn.Rules] ELSE trT)
    /\ UNCHANGED notTr

(***************************************************************************)
(* Claims about translate                                                  *)
(***************************************************************************)
\* C1: translating the output of a translation (a deployment that carries
\* the dev.okteto.com/deployment annotation) again with the same rules
\* succeeds and yields the same deployment: nothing (tolerations, affinity
\* terms, volume mounts, capabilities, init containers) accumulates.
C1_RetranslationIsIdempotent ==
    \A k \in 1..(Len(trOuts) - 1) :
        (trOuts[k].err = "" /\ trOuts[k].d.Manifest # <<>>) =>
            /\ trOuts[k + 1].err = ""
            /\ trOuts[k + 1].d = trOuts[k].d
            /\ Marshal(trOuts[k + 1].d) = Marshal(trOuts[k].d)

\* A deployment with tolerations, an affinity term, volume mounts,
\* capabilities and an init container of its own has been translated twice,
\* with rules and options that add to each of them.
C1_Witness ==
    /\ Len(trOuts) = 2
    /\ trOuts[1].err = ""
    /\ trOuts[2].given = trOuts[1].d
    /\ trOuts[1].d.Manifest # <<>>
    /\ trIn.Deployment.Tolerations # <<>>
    /\ trIn.Tolerations # <<>>
    /\ ~trIn.Interactive
    /\ trIn.Rules[1].IsMainDevContainer
    /\ trIn.Rules[1].SecurityContext # <<>>
    /\ Len(trOuts[1].d.InitContainers) = 2
    /\ Len(trOuts[1].d.Affinity) = 2

\* The first call was a successful client-side translation, with one rule,
\* of a deployment that carried no dev.okteto.com/deployment annotation.
C3_Case ==
    /\ Len(trOuts) >= 1
    /\ trOuts[1].err = ""
    /\ ~trServerSide
    /\ trIn.Deployment.Manifest = <<>>
    /\ Len(trIn.Rules) = 1

C3_Target == GetDevContainer(trIn.Deployment.Containers, trIn.Rules[1].Container)

\* The image, replica count and dev label C3 states.
C3_ImageReplicasLabel ==
    LET d == trOuts[1].d
        idx == C3_Target
    IN  /\ idx \in DOMAIN d.Containers
        /\ d.Containers[idx].Image =
               IF trIn.Rules[1].Image # "" THEN trIn.Rules[1].Image
               ELSE trIn.Deployment.Containers[idx].Image
        /\ d.Replicas = <<1>>
        /\ DevLabel \in DOMAIN d.Labels /\ d.Labels[DevLabel] = "true"
        /\ DevLabel \in DOMAIN d.TplLabels /\ d.TplLabels[DevLabel] = "true"

\* C3 (as claimed): after such a translation the target container's image is
\* the rule's image (its previous image when the rule gives none), the
\* replica count is 1, the dev label is "true", and the annotation holds the
\* serialized deployment as it was before translate changed anything.
C3_AsClaimed ==
    C3_Case =>
        /\ C3_ImageReplicasLabel
        /\ trOuts[1].d.Manifest = <<Marshal(trIn.Deployment)>>

\* The deployment as translate snapshots it: the supplied one without its
\* deployment.kubernetes.io/revision annotation and with its status cleared.
C3_Snapshot ==
    [trIn.Deployment EXCEPT !.Annotations = DelKey(@, revisionAnnotation),
                            !.Status = 0]

\* C3 (amended): as C3, the annotation holding the serialization of the
\* supplied deployment with its revision annotation removed and its status
\* cleared, and with none of the dev-mode changes; decoding it gives that
\* deployment back.
C3_AnnotationHoldsStrippedOriginal ==
    C3_Case =>
        /\ C3_ImageReplicasLabel
        /\ trOuts[1].d.Manifest = <<Marshal(C3_Snapshot)>>
        /\ Unmarshal(trOuts[1].d.Manifest[1]) = C3_Snapshot

\* A live deployment (revision annotation, status, three replicas) has been
\* translated with one rule that names an image.
C3_Witness ==
    /\ C3_Case
    /\ revisionAnnotation \in DOMAIN trIn.Deployment.Annotations
    /\ trIn.Deployment.Status # 0
    /\ trIn.Deployment.Replicas = <<3>>
    /\ trIn.Rules[1].Image = "dev:latest"
    /\ trOuts[1].d.Containers[C3_Target].Image = "dev:latest"


\* The first rule of the supplied translation whose target the supplied
\* deployment does not hold (0 if every target is resolved): a name no
\* container has, or an empty name when there is no container.
RECURSIVE Unresolved(_)
Unresolved(i) ==
    IF i > Len(trIn.Rules) THEN 0
    ELSE IF GetDevContainer(trIn.Deployment.Containers,
                            trIn.Rules[i].Container) <= 0
    THEN i
    ELSE Unresolved(i + 1)

\* A call of translate that returned ContainerNotFound left the deployment
\* of the translation as it was given.
NotFoundLeavesDeployment ==
    \A k \in DOMAIN trOuts :
        trOuts[k].err = ErrContainerNotFound => trOuts[k].d = trOuts[k].given

\* C24: a first call of translate with a rule whose target the deployment
\* does not hold returns the ContainerNotFound error, and every call that
\* returns ContainerNotFound leaves the deployment of the translation as it
\* was given.
C24_UnresolvedTargetIsContainerNotFound ==
    /\ (Len(trOuts) >= 1 /\ Unresolved(1) > 0) =>
          trOuts[1].err = ErrContainerNotFound
    /\ NotFoundLeavesDeployment

\* C25: after a translation with one rule that carries a security context,
\* of a target container that has one of its own, the fields of the
\* container's security context other than runAsUser, runAsGroup,
\* runAsNonRoot and the capabilities (readOnlyRootFilesystem, privileged)
\* have the values they had.
C25_OtherSecurityFieldsKept ==
    (/\ C3_Case
     /\ trIn.Rules[1].SecurityContext # <<>>
     /\ trIn.Deployment.Containers[C3_Target].SecurityContext # <<>>) =>
        LET before == trIn.Deployment.Containers[C3_Target].SecurityContext[1]
            after == trOuts[1].d.Containers[C3_Target].SecurityContext[1]
        IN  /\ after.ReadOnlyRootFilesystem = before.ReadOnlyRootFilesystem
            /\ after.Privileged = before.Privileged

\* The first call was a successful client-side translation of a deployment
\* that carried no dev.okteto.com/deployment annotation.
FirstClientSideTranslation ==
    /\ Len(trOuts) >= 1
    /\ trOuts[1].err = ""
    /\ ~trServerSide
    /\ trIn.Deployment.Manifest = <<>>

\* The term TranslatePodAffinity adds: on the node of the pods that carry the
\* interactive label of the session.
CoSchedulingTerm ==
    [MatchLabels |-> SetKey(EmptyMap, InteractiveDevLabel, trIn.Name),
     TopologyKey |-> "kubernetes.io/hostname"]

\* The number of co-scheduling terms among the affinity terms.
CoSchedulingTerms(affinity) ==
    Cardinality({i \in DOMAIN affinity : affinity[i] = CoSchedulingTerm})

\* C26: translate appends the pod-affinity co-scheduling term to the
\* affinity terms of the deployment when the session is not interactive
\* (detached), and leaves the affinity terms as they were when the session
\* is interactive, where it adds the volume of the sync secret instead.
C26_AffinityForDetachedSessions ==
    FirstClientSideTranslation =>
        IF trIn.Interactive
        THEN /\ trOuts[1].d.Affinity = trIn.Deployment.Affinity
             /\ HasVolume(trOuts[1].d.Volumes, oktetoSyncSecretVolume)
        ELSE /\ trOuts[1].d.Affinity =
                    Append(trIn.Deployment.Affinity, CoSchedulingTerm)
             /\ ~HasVolume(trOuts[1].d.Volumes, oktetoSyncSecretVolume)

C26_Witness ==
    /\ FirstClientSideTranslation
    /\ ~trIn.Interactive
    /\ trIn.Deployment.Affinity # <<>>
    /\ CoSchedulingTerms(trOuts[1].d.Affinity) = 1

\* C26 as stated: the co-scheduling term is added when the session is
\* interactive and is not added when it is not.
C26_AsClaimed ==
    FirstClientSideTranslation =>
        CoSchedulingTerms(trOuts[1].d.Affinity) =
            IF trIn.Interactive THEN 1 ELSE 0

\* How many elements of the sequence have the name okteto-bin.
NamedOktetoBin(seq) ==
    Cardinality({i \in DOMAIN seq : seq[i].Name = OktetoBinName})

\* C27: after a translation whose first rule is that of the main
\* development container, the pod has exactly one volume named okteto-bin
\* and exactly one init container named okteto-bin, and the container of
\* the rule has exactly one mount named okteto-bin, whatever the deployment
\* held before.
C27_ExactlyOneOktetoBin ==
    (FirstClientSideTranslation /\ trIn.Rules[1].IsMainDevContainer) =>
        /\ NamedOktetoBin(trOuts[1].d.Volumes) = 1
        /\ NamedOktetoBin(trOuts[1].d.InitContainers) = 1
        /\ NamedOktetoBin(trOuts[1].d.Containers[C3_Target].VolumeMounts) = 1

TrNext == Translate \/ Retranslate


EnvInit ==
    /\ envBase \in SeqsUpTo(BaseEnvVars, MaxEnvLen)
    /\ envRule \in SeqsUpTo(RuleEnvVars, MaxEnvLen)
    /\ envC = envBase
    /\ envPc = "input"

EnvIdle ==
    /\ envBase = <<>>
    /\ envRule = <<>>
    /\ envC = <<>>
    /\ envPc = "idle"

DoTranslateEnvVars ==
    /\ envPc = "input"
    /\ envC' = TranslateEnvVars(envC, envRule)
    /\ envPc' = "done"
    /\ UNCHANGED <<envRule, envBase>>
    /\ UNCHANGED notEnv

\* The rule's value for name n: the data model keys the rule's variables by
\* name, the last entry of a name winning.
RuleValue(renv, n) == EnvMap(renv, Len(renv))[n]

RuleOnlyEntries(base, renv) ==
    SelectSeq(renv, LAMBDA e : e.Name \notin {base[i].Name : i \in DOMAIN base})

\* C2 (as claimed): after TranslateEnvVars the container's environment is the
\* base entries in their original order, every entry whose name appears in
\* the rule carrying the rule's value and every other entry unchanged,
\* followed by the rule entries whose names do not occur in the base, in rule
\* order (an entry's value being the rule's value for its name).
C2_EnvMergeAsClaimed ==
    envPc = "done" =>
        LET ruleNames == {envRule[i].Name : i \in DOMAIN envRule}
            tail == RuleOnlyEntries(envBase, envRule)
        IN  /\ Len(envC) = Len(envBase) + Len(tail)
            /\ \A i \in DOMAIN envBase :
                  /\ envC[i].Name = envBase[i].Name
                  /\ IF envBase[i].Name \in ruleNames
                     THEN envC[i].Value = RuleValue(envRule, envBase[i].Name)
                     ELSE envC[i] = envBase[i]
            /\ \A j \in DOMAIN tail :
                  /\ envC[Len(envBase) + j].Name = tail[j].Name
                  /\ envC[Len(envBase) + j].Value = RuleValue(envRule, tail[j].Name)

EnvNext == DoTranslateEnvVars

(***************************************************************************)
(* pkg/k8s/volumes: Create, checkPVCValues, Destroy, checkIfAttached       *)
(***************************************************************************)
\* Error texts are sequences of words, so that "contains" and the wrapping
\* of one error in another are computed as strings.Contains and fmt.Errorf
\* compute them.
NoError == <<>>

Contains(s, sub) ==
    \E i \in 0..(Len(s) - Len(sub)) : \A j \in 1..Len(sub) : s[i + j] = sub[j]

VolumeName == "okteto-dev"
PodName == "dev-pod"

\* The answers of the API server.
ErrNotFound == <<"persistentvolumeclaims", VolumeName, "not", "found">>
ErrAlreadyExists == <<"persistentvolumeclaims", VolumeName, "already", "exists">>
ErrUnavailable == <<"connection", "refused">>
ErrCanceled == <<"context", "canceled">>

\* okteto's errors.IsNotFound
IsNotFound(err) == err # NoError /\ Contains(err, <<"not", "found">>)

\* resource.MustParse on the size texts the model uses, in Mi.
SizeTexts == {"2Gi", "2048Mi", "10Gi"}

MustParse(s) ==
    CASE s = "2Gi" -> 2048
      [] s = "2048Mi" -> 2048
      [] s = "10Gi" -> 10240

\* Quantity.String(): the canonical text of a quantity.
QuantityString(q) ==
    CASE q = 2048 -> "2Gi"
      [] q = 10240 -> "10Gi"

OktetoDefaultPVSize == "2Gi"

\* The developer's manifest as Create reads it: dev.PersistentVolumeSize()
\* and dev.PersistentVolumeStorageClass().
Devs == [Size : SizeTexts, StorageClass : {"", "fast"}]

NoDev == [Size |-> "", StorageClass |-> ""]

\* The claim Create asks for.
translatePVC(dev) ==
    [Name |-> VolumeName,
     Storage |-> <<MustParse(dev.Size)>>,
     StorageClassName |-> IF dev.StorageClass = "" THEN <<>>
                          ELSE <<dev.StorageClass>>,
     Terminating |-> FALSE]

\* checkPVCValues without the comparison of sizes.
checkPVCValuesIgnoringSize(pvc, dev) ==
    IF pvc.Storage = <<>>
    THEN <<"current", "okteto", "volume", "size", "is", "wrong">>
    ELSE IF dev.StorageClass # "" /\ pvc.StorageClassName = <<>>
    THEN <<"current", "okteto", "volume", "storageclass", "is", "",
           "instead", "of", dev.StorageClass>>
    ELSE IF dev.StorageClass # "" /\ dev.StorageClass # pvc.StorageClassName[1]
    THEN <<"current", "okteto", "volume", "storageclass", "is",
           pvc.StorageClassName[1], "instead", "of", dev.StorageClass>>
    ELSE NoError

checkPVCValues(pvc, dev) ==
    IF pvc.Storage = <<>>
    THEN <<"current", "okteto", "volume", "size", "is", "wrong">>
    ELSE IF /\ pvc.Storage[1] # MustParse(dev.Size)
            /\ \/ pvc.Storage[1] # MustParse("10Gi")
               \/ dev.Size # OktetoDefaultPVSize
    THEN <<"current", "okteto", "volume", "size", "is",
           QuantityString(pvc.Storage[1]), "instead", "of", dev.Size>>
    ELSE IF dev.StorageClass # "" /\ pvc.StorageClassName = <<>>
    THEN <<"current", "okteto", "volume", "storageclass", "is", "",
           "instead", "of", dev.StorageClass>>
    ELSE IF dev.StorageClass # "" /\ dev.StorageClass # pvc.StorageClassName[1]
    THEN <<"current", "okteto", "volume", "storageclass", "is",
           pvc.StorageClassName[1], "instead", "of", dev.StorageClass>>
    ELSE NoError

\* vClient.Get: the claim and the error; a failed Get leaves the claim empty.
GetClaim(store, fault) ==
    IF fault # NoError THEN [pvc |-> <<>>, err |-> fault]
    ELSE IF store = <<>> THEN [pvc |-> <<>>, err |-> ErrNotFound]
    ELSE [pvc |-> store, err |-> NoError]

\* vClient.Create: the store afterwards and the error.
CreateClaim(store, pvc, fault) ==
    IF fault # NoError THEN [store |-> store, err |-> fault]
    ELSE IF store # <<>> THEN [store |-> store, err |-> ErrAlreadyExists]
    ELSE [store |-> <<pvc>>, err |-> NoError]

\* Create: the store afterwards, the error returned and the write requests
\* sent to the API server.
Create(store, dev, getFault, createFault) ==
    LET pvc == translatePVC(dev)
        got == GetClaim(store, getFault)
    IN  IF got.err # NoError /\ ~Contains(got.err, <<"not", "found">>)
        THEN [store |-> store, writes |-> <<>>,
              err |-> <<"error", "getting", "kubernetes", "volume",
                        "claim:">> \o got.err]
        ELSE IF got.pvc # <<>>
        THEN [store |-> store, writes |-> <<>>,
              err |-> checkPVCValues(got.pvc[1], dev)]
        ELSE LET made == CreateClaim(store, pvc, createFault)
             IN  [store |-> made.store, writes |-> <<"create">>,
                  err |-> IF made.err # NoError
                          THEN <<"error", "creating", "kubernetes", "volume",
                                 "claim:">> \o made.err
                          ELSE NoError]

\* vClient.Delete: a claim is marked for deletion and disappears once no pod
\* mounts it; deleting a claim that is already marked succeeds again; a
\* request on a cancelled context is not sent.
DeleteClaim(store, cancelled, fault) ==
    IF cancelled THEN [store |-> store, err |-> ErrCanceled]
    ELSE IF fault # NoError THEN [store |-> store, err |-> fault]
    ELSE IF store = <<>> THEN [store |-> store, err |-> ErrNotFound]
    ELSE [store |-> <<[store[1] EXCEPT !.Terminating = TRUE]>>, err |-> NoError]

\* checkIfAttached finding no pod whatever the listing returns.
checkIfAttachedFindsNone(attached, listFault) == NoError

\* checkIfAttached: a failed listing of pods is logged and not returned.
checkIfAttached(attached, listFault) ==
    IF listFault # NoError THEN NoError
    ELSE IF attached
    THEN <<"can't", "delete", "the", "volume", VolumeName, "since", "it's",
           "still", "attached", "to", PodName>>
    ELSE NoError

\* 3 * config.GetTimeout(), in ticks of Destroy's one-second ticker.
DestroyTimeout == 2

\* Duration.String() of n ticks.
DurationString(n) == <<ToString(n), "s">>

\* The loop of Destroy without the special case of NotFound.
DestroyIterationNotFoundFails(store, attached, elapsed, cancelled, fault, listFault) ==
    LET del == DeleteClaim(store, cancelled, fault)
    IN  IF del.err # NoError
        THEN [done |-> TRUE, store |-> del.store, checked |-> FALSE,
              err |-> <<"error", "deleting", "kubernetes", "volume:">>
                      \o del.err]
        ELSE IF elapsed > DestroyTimeout
        THEN LET att == checkIfAttached(attached, listFault)
             IN  [done |-> TRUE, store |-> del.store, checked |-> TRUE,
                  err |-> IF att # NoError THEN att
                          ELSE <<"volume", "claim", VolumeName, "wasn't",
                                 "destroyed", "after">>
                               \o DurationString(DestroyTimeout)]
        ELSE [done |-> FALSE, store |-> del.store, checked |-> FALSE,
              err |-> NoError]

\* One pass of the loop of Destroy: done tells whether Destroy returned.
DestroyIteration(store, attached, elapsed, cancelled, fault, listFault) ==
    LET del == DeleteClaim(store, cancelled, fault)
    IN  IF del.err # NoError
        THEN IF IsNotFound(del.err)
             THEN [done |-> TRUE, store |-> del.store, checked |-> FALSE,
                   err |-> NoError]
             ELSE [done |-> TRUE, store |-> del.store, checked |-> FALSE,
                   err |-> <<"error", "deleting", "kubernetes", "volume:">>
                           \o del.err]
        ELSE IF elapsed > DestroyTimeout
        THEN LET att == checkIfAttached(attached, listFault)
             IN  [done |-> TRUE, store |-> del.store, checked |-> TRUE,
                  err |-> IF att # NoError THEN att
                          ELSE <<"volume", "claim", VolumeName, "wasn't",
                                 "destroyed", "after">>
                               \o DurationString(DestroyTimeout)]
        ELSE [done |-> FALSE, store |-> del.store, checked |-> FALSE,
              err |-> NoError]

MaxVolCalls == 2

ApiFaults == {NoError, ErrUnavailable}

\* The claims the cluster may hold before the first call.
InitialClaims ==
    {<<>>} \cup
    {<<[Name |-> VolumeName, Storage |-> st, StorageClassName |-> sc,
        Terminating |-> FALSE]>> :
        st \in {<<>>, <<2048>>, <<10240>>}, sc \in {<<>>, <<"fast">>, <<"slow">>}}

NoCall == [before |-> <<>>, writes |-> <<>>, answered |-> TRUE]

VolInit ==
    /\ volPvc \in InitialClaims
    /\ volAttached \in BOOLEAN
    /\ volPc = "idle"
    /\ volElapsed = 0
    /\ volTick = FALSE
    /\ volCancelled = FALSE
    /\ volCall = NoCall
    /\ volLog = <<>>

VolIdle ==
    /\ volPvc = <<>>
    /\ volAttached = FALSE
    /\ volPc = "off"
    /\ volElapsed = 0
    /\ volTick = FALSE
    /\ volCancelled = FALSE
    /\ volCall = NoCall
    /\ volLog = <<>>

\* A call of Create.
VolCreate ==
    /\ volPc = "idle"
    /\ Len(volLog) < MaxVolCalls
    /\ \E dev \in Devs, getFault \in ApiFaults, createFault \in ApiFaults :
          LET res == Create(volPvc, dev, getFault, createFault)
          IN  /\ volPvc' = res.store
              /\ volLog' = Append(volLog,
                     [op |-> "Create", dev |-> dev, before |-> volPvc,
                      after |-> res.store, err |-> res.err,
                      writes |-> res.writes,
                      answered |-> getFault = NoError])
    /\ UNCHANGED <<volAttached, volPc, volElapsed, volTick, volCancelled,
                   volCall>>
    /\ UNCHANGED notVol

\* One pass of the loop of a Destroy whose bookkeeping is call. The record
\* of a call that returns holds the listing of checkIfAttached, if it was
\* made, and whether the last delete was sent with the context cancelled.
VolDestroyPass(call, elapsed) ==
    \E fault \in ApiFaults, listFault \in ApiFaults :
        LET res == DestroyIteration(volPvc, volAttached, elapsed, volCancelled,
                                    fault, listFault)
            now == [call EXCEPT !.writes = Append(@, "delete"),
                                !.answered = @ /\ fault = NoError
                                               /\ ~volCancelled]
        IN  /\ volPvc' = res.store
            /\ IF res.done
               THEN /\ volPc' = "idle"
                    /\ volCall' = NoCall
                    /\ volCancelled' = FALSE
                    /\ volLog' = Append(volLog,
                           [op |-> "Destroy", dev |-> NoDev,
                            before |-> now.before, after |-> res.store,
                            err |-> res.err, writes |-> now.writes,
                            answered |-> now.answered,
                            check |-> IF res.checked
                                      THEN <<[attached |-> volAttached,
                                              err |-> listFault]>>
                                      ELSE <<>>,
                            deleteAfterDone |-> volCancelled])
               ELSE /\ volPc' = "select"
                    /\ volCall' = now
                    /\ UNCHANGED <<volCancelled, volLog>>

\* Destroy is called: its ticker and deadline start, and the first delete
\* is sent.
VolDestroy ==
    /\ volPc = "idle"
    /\ Len(volLog) < MaxVolCalls
    /\ volElapsed' = 0
    /\ volTick' = FALSE
    /\ VolDestroyPass([NoCall EXCEPT !.before = volPvc], 0)
    /\ UNCHANGED volAttached
    /\ UNCHANGED notVol

\* The select of Destroy takes the tick and the loop goes round.
VolDestroyOnTick ==
    /\ volPc = "select"
    /\ volTick
    /\ volTick' = FALSE
    /\ VolDestroyPass(volCall, volElapsed)
    /\ UNCHANGED <<volAttached, volElapsed>>
    /\ UNCHANGED notVol

\* The select of Destroy takes ctx.Done().
VolDestroyOnDone ==
    /\ volPc = "select"
    /\ volCancelled
    /\ volPc' = "idle"
    /\ volCall' = NoCall
    /\ volCancelled' = FALSE
    /\ volLog' = Append(volLog,
           [op |-> "Destroy", dev |-> NoDev, before |-> volCall.before,
            after |-> volPvc, err |-> ErrCanceled, writes |-> volCall.writes,
            answered |-> FALSE, check |-> <<>>, deleteAfterDone |-> FALSE])
    /\ UNCHANGED <<volPvc, volAttached, volElapsed, volTick>>
    /\ UNCHANGED notVol

\* A second passes while Destroy waits.
VolTick ==
    /\ volPc = "select"
    /\ volElapsed <= DestroyTimeout
    /\ volElapsed' = volElapsed + 1
    /\ volTick' = TRUE
    /\ UNCHANGED <<volPvc, volAttached, volPc, volCancelled, volCall, volLog>>
    /\ UNCHANGED notVol

\* The caller's context is cancelled while Destroy waits.
VolCancel ==
    /\ volPc = "select"
    /\ ~volCancelled
    /\ volCancelled' = TRUE
    /\ UNCHANGED <<volPvc, volAttached, volPc, volElapsed, volTick, volCall,
                   volLog>>
    /\ UNCHANGED notVol

\* The cluster removes a claim marked for deletion that no pod mounts.
VolFinalize ==
    /\ volPc \in {"idle", "select"}
    /\ volPvc # <<>>
    /\ volPvc[1].Terminating
    /\ ~volAttached
    /\ volPvc' = <<>>
    /\ UNCHANGED <<volAttached, volPc, volElapsed, volTick, volCancelled,
                   volCall, volLog>>
    /\ UNCHANGED notVol

\* The pod that mounts the claim goes away.
VolPodGone ==
    /\ volPc \in {"idle", "select"}
    /\ volAttached
    /\ volAttached' = FALSE
    /\ UNCHANGED <<volPvc, volPc, volElapsed, volTick, volCancelled, volCall,
                   volLog>>
    /\ UNCHANGED notVol

VolNext ==
    \/ VolCreate
    \/ VolDestroy
    \/ VolDestroyOnTick
    \/ VolDestroyOnDone
    \/ VolTick
    \/ VolCancel
    \/ VolFinalize
    \/ VolPodGone

(***************************************************************************)
(* Claims about the volumes package                                        *)
(***************************************************************************)
IsConflict(err) == Contains(err, <<"current", "okteto", "volume">>)

SizeConflict(cur, dev) ==
    <<"current", "okteto", "volume", "size", "is",
      QuantityString(cur.Storage[1]), "instead", "of", dev.Size>>

SizeDiffers(cur, dev) ==
    cur.Storage # <<>> /\ cur.Storage[1] # MustParse(dev.Size)

SameSpec(cur, dev) ==
    /\ cur.Storage = translatePVC(dev).Storage
    /\ cur.StorageClassName = translatePVC(dev).StorageClassName

Grandfathered(cur, dev) ==
    /\ cur.Storage = <<MustParse("10Gi")>>
    /\ dev.Size = OktetoDefaultPVSize

ClassAccepted(cur, dev) ==
    dev.StorageClass = "" \/ cur.StorageClassName = <<dev.StorageClass>>

\* The calls of Create that found the claim in the cluster.
CreatesOnExisting ==
    {k \in DOMAIN volLog : volLog[k].op = "Create" /\ volLog[k].before # <<>>}

\* C4 (as claimed): a Create that finds the claim sends no create, update
\* or delete and leaves the claim as it was; answered by the API server, it
\* returns no error when the requested spec is the claim's, and a conflict
\* error whenever the requested size differs from the claim's size.
C4_AsClaimed ==
    \A k \in CreatesOnExisting :
        LET rec == volLog[k]
        IN  /\ rec.writes = <<>>
            /\ rec.after = rec.before
            /\ rec.answered =>
                  /\ SameSpec(rec.before[1], rec.dev) => rec.err = NoError
                  /\ SizeDiffers(rec.before[1], rec.dev) => IsConflict(rec.err)

\* C4: a Create that finds the claim sends no create, update or delete and
\* leaves the claim as it was; answered by the API server, it returns no
\* error when the requested spec is the claim's, and the size conflict error
\* when the requested size differs from the claim's size, except that a
\* 10Gi claim is accepted for a request of the default size.
C4_ExistingClaimIsOnlyValidated ==
    \A k \in CreatesOnExisting :
        LET rec == volLog[k]
            cur == rec.before[1]
        IN  /\ rec.writes = <<>>
            /\ rec.after = rec.before
            /\ rec.answered =>
                  /\ SameSpec(cur, rec.dev) => rec.err = NoError
                  /\ (SizeDiffers(cur, rec.dev) /\ ~Grandfathered(cur, rec.dev))
                        => rec.err = SizeConflict(cur, rec.dev)
                  /\ (Grandfathered(cur, rec.dev) /\ ClassAccepted(cur, rec.dev))
                        => rec.err = NoError

C4_Witness ==
    /\ \E k \in CreatesOnExisting :
          /\ volLog[k].answered
          /\ SizeDiffers(volLog[k].before[1], volLog[k].dev)
          /\ IsConflict(volLog[k].err)
    /\ \E k \in CreatesOnExisting :
          /\ volLog[k].answered
          /\ SameSpec(volLog[k].before[1], volLog[k].dev)
          /\ volLog[k].err = NoError

\* C5: a Destroy of a claim that does not exist, answered by the API server,
\* returns success; a Destroy that follows a successful Destroy, answered by
\* the API server, returns success as well; and Destroy returns success only
\* when the claim is gone.
C5_DestroyIsIdempotent ==
    \A k \in DOMAIN volLog :
        volLog[k].op = "Destroy" =>
            /\ (volLog[k].before = <<>> /\ volLog[k].answered)
                  => volLog[k].err = NoError
            /\ (/\ k > 1
                /\ volLog[k - 1].op = "Destroy"
                /\ volLog[k - 1].err = NoError
                /\ volLog[k].answered)
                  => volLog[k].err = NoError
            /\ volLog[k].err = NoError => volLog[k].after = <<>>

C5_Witness ==
    \E k \in DOMAIN volLog :
        /\ k > 1
        /\ volLog[k].op = "Destroy"
        /\ volLog[k - 1].op = "Destroy"
        /\ volLog[k - 1].before # <<>>
        /\ Len(volLog[k - 1].writes) > 1
        /\ volLog[k - 1].err = NoError
        /\ volLog[k].err = NoError

\* The error of Destroy when its deadline has passed and no pod was found.
ErrNotDestroyed ==
    <<"volume", "claim", VolumeName, "wasn't", "destroyed", "after">>
    \o DurationString(DestroyTimeout)

\* The calls of Destroy that ended at the deadline.
TimedOutCalls ==
    {k \in DOMAIN volLog : volLog[k].op = "Destroy" /\ volLog[k].check # <<>>}

C19_ListErrorChangesOutcome ==
    \A k \in TimedOutCalls :
        volLog[k].check[1].err # NoError =>
            volLog[k].err #
                (LET att == checkIfAttached(volLog[k].check[1].attached, NoError)
                 IN  IF att # NoError THEN att ELSE ErrNotDestroyed)

\* C20: a Destroy whose context is cancelled while it waits sends no
\* further delete: no call returns from a delete sent after the
\* cancellation, so a cancelled call returns the cancellation error from
\* its select.
C20_NoDeleteAfterCancellation ==
    \A k \in DOMAIN volLog :
        volLog[k].op = "Destroy" => ~volLog[k].deleteAfterDone

(***************************************************************************)
(* cmd/up/activate.go: waitUntilDevelopmentContainerIsRunning              *)
(***************************************************************************)
\* errors.ErrDevPodDeleted
ErrDevPodDeleted == <<"development", "container", "has", "been", "removed">>

UnboundClaims ==
    <<"pod", "has", "unbound", "immediate", "PersistentVolumeClaims">>

FailureReasons ==
    {"Failed", "FailedScheduling", "FailedCreatePodSandBox",
     "ErrImageNeverPull", "InspectFailed", "FailedCreatePodContainer"}

\* fmt.Errorf(format) without arguments, word by word: a verb has no operand
\* and "%%" is a percent sign.
FormatWord(w) ==
    CASE w = "token?scope=repository%3Aapp%3Apull" ->
             "token?scope=repository%!A(MISSING)app%!A(MISSING)pull"
      [] w = "100%%" -> "100%"
      [] OTHER -> w

Errorf(format) == [i \in DOMAIN format |-> FormatWord(format[i])]

\* The messages of the events the model delivers.
EventMessages ==
    {<<"Back-off", "pulling", "image", "app:dev">>,
     <<"0/3", "nodes", "are", "available:">> \o UnboundClaims,
     <<"failed", "to", "authorize:", "GET",
       "token?scope=repository%3Aapp%3Apull", "401">>,
     <<>>}

\* What a stream delivers: an *apiv1.Event, an *apiv1.Pod, or an object of
\* another type (decodable FALSE).
Undecodable ==
    [decodable |-> FALSE, Reason |-> "", Message |-> <<>>, Phase |-> "",
     Deleting |-> FALSE]

Event(reason, message) ==
    [decodable |-> TRUE, Reason |-> reason, Message |-> message, Phase |-> "",
     Deleting |-> FALSE]

Pod(phase, deleting) ==
    [decodable |-> TRUE, Reason |-> "", Message |-> <<>>, Phase |-> phase,
     Deleting |-> deleting]

EventItems ==
    {Event(r, m) : r \in FailureReasons, m \in EventMessages}
    \cup {Event(r, <<"Pulling", "image", "app:dev">>) :
            r \in {"SuccessfulAttachVolume", "Killing", "Pulling", "Scheduled"}}
    \cup {Undecodable}

PodItems ==
    {Pod(p, del) : p \in {"Pending", "Running", "Failed"}, del \in BOOLEAN}
    \cup {Undecodable}

\* What handling one item of a stream does: whether the wait returns, with
\* which error (ok: nil), the session status written, the subscriptions
\* opened.
Outcome(resolved, ok, err, status, subs) ==
    [resolved |-> resolved, ok |-> ok, err |-> err, status |-> status,
     subs |-> subs]

KeepWaiting == Outcome(FALSE, FALSE, NoError, <<>>, 0)

\* case event := <-watcherEvents.ResultChan()
OnEvent(e, watchFault) ==
    IF ~e.decodable
    THEN IF watchFault # NoError
         THEN Outcome(TRUE, FALSE, watchFault, <<>>, 0)
         ELSE Outcome(FALSE, FALSE, NoError, <<>>, 1)
    ELSE IF e.Reason \in FailureReasons
    THEN IF Contains(e.Message, UnboundClaims)
         THEN KeepWaiting
         ELSE Outcome(TRUE, FALSE, Errorf(e.Message), <<>>, 0)
    ELSE IF e.Reason = "SuccessfulAttachVolume" THEN KeepWaiting
    ELSE IF e.Reason = "Killing"
    THEN Outcome(TRUE, FALSE, ErrDevPodDeleted, <<>>, 0)
    ELSE IF e.Reason = "Pulling"
    THEN Outcome(FALSE, FALSE, NoError, <<"Pulling">>, 0)
    ELSE KeepWaiting

\* The pod case with the deletion timestamp looked at first.
OnPodDeletionFirst(pod, watchFault) ==
    IF ~pod.decodable
    THEN IF watchFault # NoError
         THEN Outcome(TRUE, FALSE, watchFault, <<>>, 0)
         ELSE Outcome(FALSE, FALSE, NoError, <<>>, 1)
    ELSE IF pod.Deleting
    THEN Outcome(TRUE, FALSE, ErrDevPodDeleted, <<>>, 0)
    ELSE IF pod.Phase = "Running"
    THEN Outcome(TRUE, TRUE, NoError, <<>>, 0)
    ELSE KeepWaiting

\* The pod case returning an error for an object that is not a pod.
OnPodUndecodableFails(pod, watchFault) ==
    IF ~pod.decodable
    THEN Outcome(TRUE, FALSE, <<"unexpected", "object">>, <<>>, 0)
    ELSE IF pod.Phase = "Running"
    THEN Outcome(TRUE, TRUE, NoError, <<>>, 0)
    ELSE IF pod.Deleting
    THEN Outcome(TRUE, FALSE, ErrDevPodDeleted, <<>>, 0)
    ELSE KeepWaiting

\* case event := <-watcherPod.ResultChan()
OnPod(pod, watchFault) ==
    IF ~pod.decodable
    THEN IF watchFault # NoError
         THEN Outcome(TRUE, FALSE, watchFault, <<>>, 0)
         ELSE Outcome(FALSE, FALSE, NoError, <<>>, 1)
    ELSE IF pod.Phase = "Running"
    THEN Outcome(TRUE, TRUE, NoError, <<>>, 0)
    ELSE IF pod.Deleting
    THEN Outcome(TRUE, FALSE, ErrDevPodDeleted, <<>>, 0)
    ELSE KeepWaiting

MaxWatchItems == 3

WatchInit ==
    /\ wtPc = "start"
    /\ wtPersistentVolume \in BOOLEAN
    /\ wtCancelled = FALSE
    /\ wtStatus = <<>>
    /\ wtSubs = [events |-> 0, pods |-> 0]
    /\ wtLog = <<>>
    /\ wtResult = <<>>

WatchIdle ==
    /\ wtPc = "off"
    /\ wtPersistentVolume = FALSE
    /\ wtCancelled = FALSE
    /\ wtStatus = <<>>
    /\ wtSubs = [events |-> 0, pods |-> 0]
    /\ wtLog = <<>>
    /\ wtResult = <<>>

\* The wait returns: nil when ok, else the error err.
WatchReturn(ok, err) ==
    /\ wtPc' = "done"
    /\ wtResult' = <<[ok |-> ok, err |-> err]>>

\* The watcher starts: the status and the two subscriptions.
WatchStart ==
    /\ wtPc = "start"
    /\ wtStatus' = IF wtPersistentVolume THEN <<"Attaching">> ELSE <<>>
    /\ \E podFault \in ApiFaults, eventFault \in ApiFaults :
          IF podFault # NoError
          THEN /\ WatchReturn(FALSE, podFault)
               /\ UNCHANGED wtSubs
          ELSE IF eventFault # NoError
          THEN /\ WatchReturn(FALSE, eventFault)
               /\ wtSubs' = [wtSubs EXCEPT !.pods = 1]
          ELSE /\ wtPc' = "waiting"
               /\ wtSubs' = [events |-> 1, pods |-> 1]
               /\ UNCHANGED wtResult
    /\ UNCHANGED <<wtPersistentVolume, wtCancelled, wtLog>>
    /\ UNCHANGED notWatch

\* The select takes an item of one stream and its case runs.
WatchHandled(stream, item, out) ==
    /\ wtLog' = Append(wtLog, [stream |-> stream, item |-> item,
                               resolved |-> out.resolved, ok |-> out.ok,
                               err |-> out.err, cancelled |-> wtCancelled])
    /\ wtStatus' = wtStatus \o out.status
    /\ wtSubs' = [wtSubs EXCEPT ![stream] = @ + out.subs]
    /\ IF out.resolved
       THEN WatchReturn(out.ok, out.err)
       ELSE UNCHANGED <<wtPc, wtResult>>
    /\ UNCHANGED <<wtPersistentVolume, wtCancelled>>
    /\ UNCHANGED notWatch

WatchOnEvent ==
    /\ wtPc = "waiting"
    /\ Len(wtLog) < MaxWatchItems
    /\ \E e \in EventItems, watchFault \in ApiFaults :
          WatchHandled("events", e, OnEvent(e, watchFault))

WatchOnPod ==
    /\ wtPc = "waiting"
    /\ Len(wtLog) < MaxWatchItems
    /\ \E pod \in PodItems, watchFault \in ApiFaults :
          WatchHandled("pods", pod, OnPod(pod, watchFault))

\* case <-ctx.Done()
WatchOnDone ==
    /\ wtPc = "waiting"
    /\ wtCancelled
    /\ WatchReturn(FALSE, ErrCanceled)
    /\ UNCHANGED <<wtPersistentVolume, wtCancelled, wtStatus, wtSubs, wtLog>>
    /\ UNCHANGED notWatch

\* The surrounding scope is cancelled.
WatchCancel ==
    /\ wtPc = "waiting"
    /\ ~wtCancelled
    /\ wtCancelled' = TRUE
    /\ UNCHANGED <<wtPc, wtPersistentVolume, wtStatus, wtSubs, wtLog, wtResult>>
    /\ UNCHANGED notWatch

WatchNext ==
    \/ WatchStart
    \/ WatchOnEvent
    \/ WatchOnPod
    \/ WatchOnDone
    \/ WatchCancel

(***************************************************************************)
(* Claims about the readiness watcher                                      *)
(***************************************************************************)
\* The events and the pods the watcher decoded and handled.
HandledEvents ==
    {k \in DOMAIN wtLog : wtLog[k].stream = "events" /\ wtLog[k].item.decodable}

HandledPods ==
    {k \in DOMAIN wtLog : wtLog[k].stream = "pods" /\ wtLog[k].item.decodable}

\* C6 (as claimed): an event with one of the six failure reasons makes the
\* wait return at once with an error whose text is the event's message,
\* unless the message contains "pod has unbound immediate
\* PersistentVolumeClaims", in which case the wait goes on; a Pulling or
\* SuccessfulAttachVolume event never makes the wait return, and a pod in
\* phase Running right after a Pulling event makes it return success.
C6_FailureEventCarriesItsMessage ==
    \A k \in HandledEvents :
        LET rec == wtLog[k]
            e == rec.item
        IN  /\ e.Reason \in FailureReasons =>
                  IF Contains(e.Message, UnboundClaims)
                  THEN ~rec.resolved
                  ELSE rec.resolved /\ ~rec.ok /\ rec.err = e.Message
            /\ e.Reason \in {"Pulling", "SuccessfulAttachVolume"} =>
                  ~rec.resolved
            /\ (/\ e.Reason = "Pulling"
                /\ k + 1 \in HandledPods
                /\ wtLog[k + 1].item.Phase = "Running")
                  => wtLog[k + 1].resolved /\ wtLog[k + 1].ok

\* C7 (as claimed): every pod the watcher observes in phase Running makes
\* the wait return success, and every pod it observes with a deletion
\* timestamp makes the wait return ErrDevPodDeleted.
C7_AsClaimed ==
    \A k \in HandledPods :
        LET rec == wtLog[k]
        IN  /\ rec.item.Phase = "Running" => rec.resolved /\ rec.ok
            /\ rec.item.Deleting =>
                  rec.resolved /\ ~rec.ok /\ rec.err = ErrDevPodDeleted

\* C7: every pod the watcher observes in phase Running makes the wait
\* return success, whether or not it carries a deletion timestamp; every
\* pod it observes in another phase with a deletion timestamp makes the
\* wait return ErrDevPodDeleted; and what the record says is what the wait
\* returned.
C7_RunningBeforeDeletion ==
    \A k \in HandledPods :
        LET rec == wtLog[k]
        IN  /\ rec.item.Phase = "Running" =>
                  /\ rec.resolved /\ rec.ok
                  /\ wtPc = "done" /\ wtResult = <<[ok |-> TRUE, err |-> NoError]>>
            /\ (rec.item.Phase # "Running" /\ rec.item.Deleting) =>
                  /\ rec.resolved /\ ~rec.ok /\ rec.err = ErrDevPodDeleted
                  /\ wtPc = "done"
                  /\ wtResult = <<[ok |-> FALSE, err |-> ErrDevPodDeleted]>>

C7_Witness ==
    /\ wtPc = "done"
    /\ Len(wtLog) > 1
    /\ Len(wtLog) \in HandledPods
    /\ wtLog[Len(wtLog)].item.Phase = "Pending"
    /\ wtLog[Len(wtLog)].item.Deleting
    /\ wtResult = <<[ok |-> FALSE, err |-> ErrDevPodDeleted]>>

\* The items of the stream that could not be decoded and after which the
\* wait went on.
Resubscribed(stream) ==
    {k \in DOMAIN wtLog : /\ wtLog[k].stream = stream
                          /\ ~wtLog[k].item.decodable
                          /\ ~wtLog[k].resolved}

StackName == "shop"

\* One request to the cluster or to helm: what it was, on which object,
\* the error it returned and, for a listing, how many objects it returned.
Op(op, name) ==
    [op |-> op, name |-> name, err |-> NoError, seen |-> 0, data |-> <<>>]

\* The statuses Destroy writes in the stack's configmap.
destroyingStatus == "destroying"
errorStatus == "error"

\* base64.StdEncoding.EncodeToString of a text.
EncodeToString(text) == [base64 |-> text]

DestroyingOutput == <<"Destroying", "stack", StackName>>

\* The output of a failed destruction without the error of destroy.
FailedOutputWithoutError(err) ==
    DestroyingOutput \o <<"Stack", StackName, "destruction", "failed">>

FailedOutput(err) ==
    DestroyingOutput \o <<"Stack", StackName, "destruction", "failed:">> \o err

\* configmaps.Deploy of the stack's configmap with a status and an output.
DeployStatus(status, output) ==
    [Op("configmaps.deploy", StackName) EXCEPT
        !.data = <<[status |-> status, output |-> EncodeToString(output)]>>]

\* The claims volumes.List returns for the stack's label selector.
StackVolumes(pvcs) == SelectSeq(pvcs, LAMBDA v : v.label = StackName)

\* The error a step returns when the request op fails with err.
WrapError(op, err) ==
    CASE op.op = "helm.init" ->
             <<"error", "initializing", "stack", "client:">> \o err
      [] op.op = "helm.list" -> <<"error", "listing", "stacks:">> \o err
      [] op.op = "helm.uninstall" ->
             <<"error", "destroying", "stack", StackName>> \o err
      [] op.op = "deployments.delete" ->
             <<"error", "destroying", "deployment", "of", "service", op.name>>
             \o err
      [] op.op = "statefulsets.delete" ->
             <<"error", "destroying", "statefulset", "of", "service", op.name>>
             \o err
      [] op.op = "services.delete" ->
             <<"error", "destroying", "service", op.name>> \o err
      [] op.op = "volumes.delete" ->
             <<"error", "destroying", "volume", op.name>> \o err
      [] OTHER -> err

\* What a request that succeeds changes in the cluster.
Effect(cl, op) ==
    CASE op.op = "helm.uninstall" -> [cl EXCEPT !.helm = FALSE]
      [] op.op = "deployments.delete" ->
             [cl EXCEPT !.deployments = SelectSeq(@, LAMBDA n : n # op.name)]
      [] op.op = "statefulsets.delete" ->
             [cl EXCEPT !.statefulsets = SelectSeq(@, LAMBDA n : n # op.name)]
      [] op.op = "services.delete" ->
             [cl EXCEPT !.services = @ \ {op.name}]
      [] op.op = "volumes.delete" ->
             [cl EXCEPT !.pvcs = SelectSeq(@, LAMBDA v : v.name # op.name)]
      [] op.op = "configmaps.deploy" -> [cl EXCEPT !.cm = op.data]
      [] op.op = "configmaps.delete" -> [cl EXCEPT !.cm = <<>>]
      [] OTHER -> cl

\* How many objects a listing returns.
Seen(cl, op) ==
    CASE op.op = "deployments.list" -> Len(cl.deployments)
      [] op.op = "statefulsets.list" -> Len(cl.statefulsets)
      [] op.op = "pods.list" -> IF cl.pods THEN 1 ELSE 0
      [] op.op = "volumes.list" -> Len(StackVolumes(cl.pvcs))
      [] OTHER -> 0

\* The requests of plan are sent in order from the i-th on; the k-th fails
\* with fault and ends the step (k = 0: none fails).
RECURSIVE Exec(_, _, _, _, _, _)
Exec(cl, plan, i, k, fault, sent) ==
    IF i > Len(plan) THEN [cluster |-> cl, ops |-> sent, err |-> NoError]
    ELSE IF i = k
    THEN [cluster |-> cl,
          ops |-> Append(sent, [plan[i] EXCEPT !.err = fault]),
          err |-> WrapError(plan[i], fault)]
    ELSE Exec(Effect(cl, plan[i]), plan, i + 1, k, fault,
              Append(sent, [plan[i] EXCEPT !.seen = Seen(cl, plan[i])]))

\* The deletions of the workloads of names that are not in the stack's
\* services, each followed by the deletion of its Service.
RECURSIVE DeletionsNotInStack(_, _, _)
DeletionsNotInStack(kind, names, services) ==
    IF names = <<>> THEN <<>>
    ELSE (IF names[1] \in services THEN <<>>
          ELSE <<Op(kind, names[1]), Op("services.delete", names[1])>>)
         \o DeletionsNotInStack(kind, Tail(names), services)

destroyHelmRelease(cl) ==
    <<Op("helm.init", StackName), Op("helm.list", StackName)>>
    \o (IF cl.helm THEN <<Op("helm.uninstall", StackName)>> ELSE <<>>)

destroyServicesNotInStack(cl, services) ==
    <<Op("deployments.list", StackName)>>
    \o DeletionsNotInStack("deployments.delete", cl.deployments, services)
    \o <<Op("statefulsets.list", StackName)>>
    \o DeletionsNotInStack("statefulsets.delete", cl.statefulsets, services)

destroyStackVolumes(cl) ==
    <<Op("volumes.list", StackName)>>
    \o [i \in DOMAIN StackVolumes(cl.pvcs) |->
            Op("volumes.delete", StackVolumes(cl.pvcs)[i].name)]

\* The timeout of waitForPodsToBeDestroyed (300 seconds), in ticks of its
\* 100 ms ticker.
PodWaitTimeout == 2

ErrPodWaitTimeout ==
    <<"kubernetes", "is", "taking", "too", "long", "to", "destroy", "your",
      "stack.", "Please", "check", "for", "errors", "and", "try", "again">>

\* destroy with its volume step ahead of the deletion of the workloads.
StepAfterVolumesFirst(step, removeVolumes) ==
    CASE step = "begin" -> "helm"
      [] step = "helm" -> IF removeVolumes THEN "volumes" ELSE "workloads"
      [] step = "volumes" -> "workloads"
      [] step = "workloads" -> "wait"
      [] step = "wait" -> "cmdelete"
      [] step = "cmdelete" -> "finish"

\* destroy with its volume step taken whatever removeVolumes is.
StepAfterAlwaysVolumes(step, removeVolumes) ==
    CASE step = "begin" -> "helm"
      [] step = "helm" -> "workloads"
      [] step = "workloads" -> "wait"
      [] step = "wait" -> "volumes"
      [] step = "volumes" -> "cmdelete"
      [] step = "cmdelete" -> "finish"

\* The order of the steps of Destroy and destroy: the step that follows a
\* step that succeeded.
StepAfter(step, removeVolumes) ==
    CASE step = "begin" -> "helm"
      [] step = "helm" -> "workloads"
      [] step = "workloads" -> "wait"
      [] step = "wait" -> IF removeVolumes THEN "volumes" ELSE "cmdelete"
      [] step = "volumes" -> "cmdelete"
      [] step = "cmdelete" -> "finish"

\* The clusters Destroy may find and the calls it may get.
Clusters ==
    [helm : BOOLEAN,
     deployments : {<<>>, <<"api">>, <<"api", "web">>},
     statefulsets : {<<>>, <<"db">>},
     services : {{"api", "web", "db"}},
     pods : BOOLEAN,
     pvcs : {<<>>,
             <<[name |-> "data", label |-> StackName]>>,
             <<[name |-> "cache", label |-> "other"],
               [name |-> "data", label |-> StackName]>>},
     cm : {<<>>}]

NoCluster ==
    [helm |-> FALSE, deployments |-> <<>>, statefulsets |-> <<>>,
     services |-> {}, pods |-> FALSE, pvcs |-> <<>>, cm |-> <<>>]

StackInit ==
    /\ sdCluster \in Clusters
    /\ sdGiven = sdCluster
    /\ sdServices \in SUBSET {"api", "db"}
    /\ sdKeep = sdServices
    /\ sdRemoveVolumes \in BOOLEAN
    /\ sdPc = "begin"
    /\ sdOps = <<>>
    /\ sdPolls = 0
    /\ sdCancelled = FALSE
    /\ sdFailed = <<>>
    /\ sdResult = <<>>

StackIdle ==
    /\ sdCluster = NoCluster
    /\ sdGiven = NoCluster
    /\ sdServices = {}
    /\ sdKeep = {}
    /\ sdRemoveVolumes = FALSE
    /\ sdPc = "off"
    /\ sdOps = <<>>
    /\ sdPolls = 0
    /\ sdCancelled = FALSE
    /\ sdFailed = <<>>
    /\ sdResult = <<>>

\* The failures a request may meet: none (0), or the k-th request of the
\* step fails; a request of the Kubernetes client on a cancelled context
\* fails at once.
StepRun(plan, usesContext) ==
    IF usesContext /\ sdCancelled
    THEN {Exec(sdCluster, plan, 1, 1, ErrCanceled, <<>>)}
    ELSE {Exec(sdCluster, plan, 1, k, ErrUnavailable, <<>>) :
            k \in 0..Len(plan)}

\* A step of destroy ends: with an error destroy returns it to Destroy,
\* else the next step follows.
StepDone(step, run) ==
    /\ sdCluster' = run.cluster
    /\ sdOps' = sdOps \o run.ops
    /\ IF run.err # NoError
       THEN /\ sdPc' = "failed"
            /\ sdFailed' = <<[step |-> step, err |-> run.err]>>
       ELSE /\ sdPc' = StepAfter(step, sdRemoveVolumes)
            /\ UNCHANGED sdFailed

\* Destroy writes the destroying status; an error ends Destroy.
StackDeployStatus ==
    /\ sdPc = "begin"
    /\ \E run \in StepRun(<<DeployStatus(destroyingStatus, DestroyingOutput)>>,
                          TRUE) :
          /\ sdCluster' = run.cluster
          /\ sdOps' = sdOps \o run.ops
          /\ IF run.err # NoError
             THEN /\ sdPc' = "done"
                  /\ sdFailed' = <<[step |-> "begin", err |-> run.err]>>
                  /\ sdResult' = <<[ok |-> FALSE, err |-> run.err]>>
             ELSE /\ sdPc' = StepAfter("begin", sdRemoveVolumes)
                  /\ UNCHANGED <<sdFailed, sdResult>>
    /\ UNCHANGED <<sdGiven, sdKeep, sdServices, sdRemoveVolumes, sdPolls, sdCancelled>>
    /\ UNCHANGED notStack

StackHelm ==
    /\ sdPc = "helm"
    /\ \E run \in StepRun(destroyHelmRelease(sdCluster), FALSE) :
          StepDone("helm", run)
    /\ UNCHANGED <<sdGiven, sdKeep, sdServices, sdRemoveVolumes, sdPolls, sdCancelled,
                   sdResult>>
    /\ UNCHANGED notStack

\* destroy without s.Services = nil: the services of the stack are kept.
StackWorkloadsKeepingServices ==
    /\ sdPc = "workloads"
    /\ UNCHANGED sdServices
    /\ \E run \in StepRun(destroyServicesNotInStack(sdCluster, sdServices),
                          TRUE) :
          StepDone("workloads", run)
    /\ sdPolls' = 0
    /\ UNCHANGED <<sdGiven, sdKeep, sdRemoveVolumes, sdCancelled, sdResult>>
    /\ UNCHANGED notStack

\* s.Services = nil, then destroyServicesNotInStack.
StackWorkloads ==
    /\ sdPc = "workloads"
    /\ sdServices' = {}
    /\ \E run \in StepRun(destroyServicesNotInStack(sdCluster, {}), TRUE) :
          StepDone("workloads", run)
    /\ sdPolls' = 0
    /\ UNCHANGED <<sdGiven, sdKeep, sdRemoveVolumes, sdCancelled, sdResult>>
    /\ UNCHANGED notStack

\* One pass of the loop of waitForPodsToBeDestroyed: a tick, a listing.
StackPollPods ==
    /\ sdPc = "wait"
    /\ sdPolls < PodWaitTimeout
    /\ sdPolls' = sdPolls + 1
    /\ \E run \in StepRun(<<Op("pods.list", StackName)>>, TRUE) :
          IF run.err = NoError /\ sdCluster.pods
          THEN /\ sdOps' = sdOps \o run.ops
               /\ UNCHANGED <<sdCluster, sdPc, sdFailed>>
          ELSE StepDone("wait", run)
    /\ UNCHANGED <<sdGiven, sdKeep, sdServices, sdRemoveVolumes, sdCancelled, sdResult>>
    /\ UNCHANGED notStack

\* The loop of waitForPodsToBeDestroyed ends at its deadline.
StackPodWaitTimeout ==
    /\ sdPc = "wait"
    /\ sdPolls >= PodWaitTimeout
    /\ sdPc' = "failed"
    /\ sdFailed' = <<[step |-> "wait", err |-> ErrPodWaitTimeout]>>
    /\ UNCHANGED <<sdCluster, sdGiven, sdKeep, sdServices, sdRemoveVolumes, sdOps,
                   sdPolls, sdCancelled, sdResult>>
    /\ UNCHANGED notStack

StackVolumesStep ==
    /\ sdPc = "volumes"
    /\ \E run \in StepRun(destroyStackVolumes(sdCluster), TRUE) :
          StepDone("volumes", run)
    /\ UNCHANGED <<sdGiven, sdKeep, sdServices, sdRemoveVolumes, sdPolls, sdCancelled,
                   sdResult>>
    /\ UNCHANGED notStack

\* The last step of destroy: configmaps.Destroy.
StackDeleteStatus ==
    /\ sdPc = "cmdelete"
    /\ \E run \in StepRun(<<Op("configmaps.delete", StackName)>>, TRUE) :
          StepDone("cmdelete", run)
    /\ UNCHANGED <<sdGiven, sdKeep, sdServices, sdRemoveVolumes, sdPolls, sdCancelled,
                   sdResult>>
    /\ UNCHANGED notStack

\* destroy failed: Destroy writes the error status and returns the error of
\* destroy, or the error of the write.
StackMarkFailed ==
    /\ sdPc = "failed"
    /\ \E run \in StepRun(<<DeployStatus(errorStatus,
                                         FailedOutput(sdFailed[1].err))>>,
                          TRUE) :
          /\ sdCluster' = run.cluster
          /\ sdOps' = sdOps \o run.ops
          /\ sdResult' = <<[ok |-> FALSE,
                            err |-> IF run.err # NoError THEN run.err
                                    ELSE sdFailed[1].err]>>
    /\ sdPc' = "done"
    /\ UNCHANGED <<sdGiven, sdKeep, sdServices, sdRemoveVolumes, sdPolls, sdCancelled,
                   sdFailed>>
    /\ UNCHANGED notStack

\* destroy succeeded: Destroy calls configmaps.Destroy and returns.
StackFinish ==
    /\ sdPc = "finish"
    /\ \E run \in StepRun(<<Op("configmaps.delete", StackName)>>, TRUE) :
          /\ sdCluster' = run.cluster
          /\ sdOps' = sdOps \o run.ops
          /\ sdResult' = <<[ok |-> run.err = NoError, err |-> run.err]>>
          /\ sdFailed' = IF run.err # NoError
                         THEN <<[step |-> "finish", err |-> run.err]>>
                         ELSE sdFailed
    /\ sdPc' = "done"
    /\ UNCHANGED <<sdGiven, sdKeep, sdServices, sdRemoveVolumes, sdPolls, sdCancelled>>
    /\ UNCHANGED notStack

\* The pods of the stack have all gone.
StackPodsGone ==
    /\ sdPc \in {"wait", "workloads"}
    /\ sdCluster.pods
    /\ sdCluster' = [sdCluster EXCEPT !.pods = FALSE]
    /\ UNCHANGED <<sdGiven, sdKeep, sdServices, sdRemoveVolumes, sdPc, sdOps, sdPolls,
                   sdCancelled, sdFailed, sdResult>>
    /\ UNCHANGED notStack

\* The caller's context is cancelled.
StackCancel ==
    /\ sdPc \notin {"off", "done"}
    /\ ~sdCancelled
    /\ sdCancelled' = TRUE
    /\ UNCHANGED <<sdCluster, sdGiven, sdKeep, sdServices, sdRemoveVolumes, sdPc, sdOps,
                   sdPolls, sdFailed, sdResult>>
    /\ UNCHANGED notStack

StackNext ==
    \/ StackDeployStatus
    \/ StackHelm
    \/ StackWorkloads
    \/ StackPollPods
    \/ StackPodWaitTimeout
    \/ StackVolumesStep
    \/ StackDeleteStatus
    \/ StackMarkFailed
    \/ StackFinish
    \/ StackPodsGone
    \/ StackCancel

(***************************************************************************)
(* Claims about stack Destroy                                              *)
(***************************************************************************)
\* Where the run of Destroy stands: the step it is at, the step that
\* failed, or the end.
StackPosition ==
    IF sdFailed # <<>> THEN sdFailed[1].step
    ELSE IF sdPc = "done" THEN "end"
    ELSE sdPc

StepIndex(step) ==
    CASE step = "begin" -> 1
      [] step = "helm" -> 2
      [] step = "workloads" -> 3
      [] step = "wait" -> 4
      [] step = "volumes" -> 5
      [] step = "cmdelete" -> 6
      [] step = "finish" -> 7
      [] step = "end" -> 8

\* The step has been left without an error.
Passed(step) == StepIndex(StackPosition) > StepIndex(step)

\* A request of this kind on this object succeeded before the i-th request.
Succeeded(kind, name, i) ==
    \E j \in 1..(i - 1) :
        /\ sdOps[j].op = kind
        /\ sdOps[j].name = name
        /\ sdOps[j].err = NoError

\* Every workload the cluster held, and its Service, was deleted before the
\* i-th request.
AllWorkloadsDeleted(i) ==
    /\ \A n \in Range(sdGiven.deployments) :
          /\ Succeeded("deployments.delete", n, i)
          /\ Succeeded("services.delete", n, i)
    /\ \A n \in Range(sdGiven.statefulsets) :
          /\ Succeeded("statefulsets.delete", n, i)
          /\ Succeeded("services.delete", n, i)

\* A listing of the stack's pods returned none before the i-th request.
ZeroPodsObserved(i) ==
    \E j \in 1..(i - 1) :
        /\ sdOps[j].op = "pods.list"
        /\ sdOps[j].err = NoError
        /\ sdOps[j].seen = 0

VolumeOps == {i \in DOMAIN sdOps : sdOps[i].op \in {"volumes.list", "volumes.delete"}}

\* The steps of destroy, the function Destroy calls between its two writes
\* of the status.
DestroySteps == {"helm", "workloads", "wait", "volumes", "cmdelete"}

\* A write of the failed status among the requests sent.
MarkedFailed ==
    \E i \in DOMAIN sdOps :
        /\ sdOps[i].op = "configmaps.deploy"
        /\ sdOps[i].data[1].status = errorStatus

\* C15: when a step of destroy has failed, the last request of Destroy is
\* the write of the failed status with an output that holds the text so
\* far and the error of the step, and Destroy returns the error of the step,
\* or the error of that write if the write fails; when no step has failed
\* the last request of Destroy is the deletion of the status object, whose
\* error if any is what Destroy returns, and the failed status is never
\* written.
C15_FailureIsRecordedThenReturned ==
    (sdPc = "done" /\ StackPosition # "begin") =>
        LET last == sdOps[Len(sdOps)]
        IN  IF StackPosition \in DestroySteps
            THEN /\ last.op = "configmaps.deploy"
                 /\ last.data[1].status = errorStatus
                 /\ Contains(last.data[1].output.base64, DestroyingOutput)
                 /\ Contains(last.data[1].output.base64, sdFailed[1].err)
                 /\ sdResult = <<[ok |-> FALSE,
                                  err |-> IF last.err # NoError
                                          THEN WrapError(last, last.err)
                                          ELSE sdFailed[1].err]>>
            ELSE /\ last.op = "configmaps.delete"
                 /\ sdResult = <<[ok |-> last.err = NoError,
                                  err |-> WrapError(last, last.err)]>>
                 /\ last.err = NoError => sdCluster.cm = <<>>
                 /\ ~MarkedFailed

C15_Witness ==
    /\ sdPc = "done"
    /\ StackPosition = "volumes"
    /\ sdOps[Len(sdOps)].err = NoError
    /\ sdCluster.cm # <<>>

\* The deletions of the status object among the requests sent.
StatusDeletions ==
    {i \in DOMAIN sdOps : sdOps[i].op = "configmaps.delete"}

\* C31: in a run of Destroy whose helm, workload, wait and volume steps
\* have all succeeded, the status object is deleted exactly once, by the
\* last request of the run, and Destroy returns success when that deletion
\* succeeds.
C31_StatusObjectDeletedOnce ==
    (/\ StackPosition \in {"cmdelete", "finish", "end"}
     /\ sdPc \in {"finish", "done"}) =>
        /\ Cardinality(StatusDeletions) = 1
        /\ sdPc = "done" =>
              /\ Len(sdOps) \in StatusDeletions
              /\ sdOps[Len(sdOps)].err = NoError => sdResult[1].ok

\* The workloads of the kind the cluster held whose deletion was requested.
DeletedWorkloads(kind) ==
    {sdOps[i].name : i \in {j \in DOMAIN sdOps : sdOps[j].op = kind}}

\* C16: once the deletion of the workloads has ended without error, every
\* Deployment and every StatefulSet the listing returned has been deleted,
\* and the Service of the same name after it, whether or not its name is
\* among the services of the stack the caller passed; the stack is left
\* without services.
C16_EveryWorkloadIsDeleted ==
    Passed("workloads") =>
        /\ sdServices = {}
        /\ DeletedWorkloads("deployments.delete") = Range(sdGiven.deployments)
        /\ DeletedWorkloads("statefulsets.delete") = Range(sdGiven.statefulsets)
        /\ DeletedWorkloads("services.delete") =
               Range(sdGiven.deployments) \cup Range(sdGiven.statefulsets)
        /\ \A i \in DOMAIN sdOps :
              sdOps[i].op \in {"deployments.delete", "statefulsets.delete"} =>
                  /\ i < Len(sdOps)
                  /\ sdOps[i + 1].op = "services.delete"
                  /\ sdOps[i + 1].name = sdOps[i].name

C16_Witness ==
    /\ Passed("workloads")
    /\ sdKeep = {"api", "db"}
    /\ "api" \in DeletedWorkloads("deployments.delete")
    /\ "db" \in DeletedWorkloads("statefulsets.delete")

\* C16 as stated: once the deletion of the workloads has ended without
\* error, the Deployments and StatefulSets deleted, and the Services deleted,
\* are exactly those whose name is not among the services of the stack the
\* caller passed.
C16_KeepSetIsNeverDeleted ==
    Passed("workloads") =>
        /\ DeletedWorkloads("deployments.delete") =
               Range(sdGiven.deployments) \ sdKeep
        /\ DeletedWorkloads("statefulsets.delete") =
               Range(sdGiven.statefulsets) \ sdKeep
        /\ DeletedWorkloads("services.delete") =
               (Range(sdGiven.deployments) \cup Range(sdGiven.statefulsets))
               \ sdKeep

\* C8: in a Destroy with removeVolumes=false no claim is ever listed or
\* deleted and the claims stay as they were, while every step that is not
\* the volume step is still taken: once the workload step is left without
\* error every workload and its Service has been deleted, once the pod wait
\* is left without error a listing has returned no pod, and once Destroy has
\* finished without error the status configmap is gone.
C8_KeepVolumesSkipsOnlyVolumes ==
    (sdPc # "off" /\ ~sdRemoveVolumes) =>
        /\ VolumeOps = {}
        /\ sdCluster.pvcs = sdGiven.pvcs
        /\ Passed("workloads") =>
              /\ AllWorkloadsDeleted(Len(sdOps) + 1)
              /\ sdCluster.deployments = <<>>
              /\ sdCluster.statefulsets = <<>>
        /\ Passed("wait") => ZeroPodsObserved(Len(sdOps) + 1)
        /\ Passed("finish") =>
              /\ sdCluster.cm = <<>>
              /\ Succeeded("configmaps.delete", StackName, Len(sdOps) + 1)
              /\ sdResult = <<[ok |-> TRUE, err |-> NoError]>>

C8_Witness ==
    /\ sdPc = "done"
    /\ ~sdRemoveVolumes
    /\ sdResult = <<[ok |-> TRUE, err |-> NoError]>>
    /\ Len(sdGiven.deployments) = 2
    /\ sdGiven.statefulsets # <<>>
    /\ sdGiven.pvcs # <<>>
    /\ \E j \in DOMAIN sdOps : sdOps[j].op = "pods.list" /\ sdOps[j].seen > 0

\* The wait for the pods ended at its deadline: the last listing succeeded
\* and still returned pods.
PodWaitTimedOut ==
    /\ sdFailed # <<>>
    /\ sdFailed[1].step = "wait"
    /\ sdOps[Len(sdOps)].op \in {"pods.list", "configmaps.deploy"}
    /\ \E j \in DOMAIN sdOps :
          /\ sdOps[j].op = "pods.list"
          /\ \A l \in (j + 1)..Len(sdOps) : sdOps[l].op # "pods.list"
          /\ sdOps[j].err = NoError
          /\ sdOps[j].seen > 0

\* C9 (as claimed): when the wait for the pods ends at its deadline with
\* pods still listed, the error names the bound of the wait; and the wait is
\* never left without error unless its last listing returned no pod.
C9_TimeoutNamesBound ==
    /\ PodWaitTimedOut =>
          Contains(sdFailed[1].err, DurationString(PodWaitTimeout))
    /\ (sdPc # "off" /\ Passed("wait")) =>
          \E j \in DOMAIN sdOps :
              /\ sdOps[j].op = "pods.list"
              /\ \A l \in (j + 1)..Len(sdOps) : sdOps[l].op # "pods.list"
              /\ sdOps[j].err = NoError
              /\ sdOps[j].seen = 0

\* C10: a claim is deleted only after every workload of the stack and its
\* Service has been deleted, a listing of the pods has returned none, and
\* no earlier request has failed; and when the helm step, the workload step
\* or the pod wait fails, no claim is deleted and the claims stay as they
\* were.
C10_VolumesAfterWorkloadsAndPods ==
    /\ \A i \in DOMAIN sdOps :
          sdOps[i].op = "volumes.delete" =>
              /\ AllWorkloadsDeleted(i)
              /\ ZeroPodsObserved(i)
              /\ \A j \in 1..(i - 1) : sdOps[j].err = NoError
    /\ (sdFailed # <<>> /\ sdFailed[1].step \in {"helm", "workloads", "wait"}) =>
          /\ \A i \in DOMAIN sdOps : sdOps[i].op # "volumes.delete"
          /\ sdCluster.pvcs = sdGiven.pvcs

C10_Witness ==
    /\ sdPc = "done"
    /\ sdRemoveVolumes
    /\ sdResult = <<[ok |-> TRUE, err |-> NoError]>>
    /\ Len(sdGiven.deployments) = 2
    /\ sdGiven.statefulsets # <<>>
    /\ \E i \in DOMAIN sdOps :
          /\ sdOps[i].op = "volumes.delete"
          /\ sdOps[i].err = NoError
    /\ \E j \in DOMAIN sdOps : sdOps[j].op = "pods.list" /\ sdOps[j].seen > 0

(***************************************************************************)
(* cmd/up/activate.go: activate, shouldRetry, devMode, createDevContainer  *)
(***************************************************************************)
\* The errors of pkg/errors that activate tells apart.
ErrLostSyncthing == <<"synchronization", "service", "is", "disconnected">>
ErrCommandFailed == <<"command", "execution", "failed">>
ErrSSHConnectError == <<"ssh", "start", "error">>
ErrForbidden == <<"forbidden">>

DevName == "api"

\* errors.UserError of a deployment modified while in dev mode.
ErrModified ==
    <<"Deployment", DevName, "has", "been", "modified", "while", "your",
      "development", "container", "was", "active">>

\* errors.IsTransient
IsTransient(err) ==
    \/ Contains(err, <<"connection", "refused">>)
    \/ Contains(err, ErrDevPodDeleted)

\* shouldRetry retrying every failed command without a probe.
shouldRetryWithoutProbe(err, healthy) ==
    IF err = NoError THEN [retry |-> FALSE, pinged |-> FALSE]
    ELSE IF err = ErrLostSyncthing THEN [retry |-> TRUE, pinged |-> FALSE]
    ELSE IF err = ErrCommandFailed THEN [retry |-> TRUE, pinged |-> FALSE]
    ELSE [retry |-> FALSE, pinged |-> FALSE]

\* shouldRetry: whether to retry and whether up.Sy.Ping was called, healthy
\* being what Ping answers.
shouldRetry(err, healthy) ==
    IF err = NoError THEN [retry |-> FALSE, pinged |-> FALSE]
    ELSE IF err = ErrLostSyncthing THEN [retry |-> TRUE, pinged |-> FALSE]
    ELSE IF err = ErrCommandFailed THEN [retry |-> ~healthy, pinged |-> TRUE]
    ELSE [retry |-> FALSE, pinged |-> FALSE]

\* The failure of devMode as activate returns it.
DevModeError(err) ==
    IF IsTransient(err) THEN err
    ELSE <<"couldn't", "activate", "your", "development", "container">> \o err

\* createDevContainer up to the receive on up.hardTerminate.
createDevContainerHead(persistentVolume) ==
    <<Op("state.Starting", DevName)>>
    \o (IF persistentVolume THEN <<Op("volumes.Create", DevName)>> ELSE <<>>)
    \o <<Op("deployments.GetTranslations", DevName),
         Op("deployments.TranslateDevMode", DevName)>>

\* The application of the translations: each deployment is deployed, and
\* its revision updated when it carries the okteto deployment annotation.
RECURSIVE DeployTranslations(_)
DeployTranslations(trList) ==
    IF trList = <<>> THEN <<>>
    ELSE <<Op("deployments.Deploy", trList[1].name)>>
         \o (IF trList[1].annotated
             THEN <<Op("deployments.UpdateOktetoRevision", trList[1].name)>>
             ELSE <<>>)
         \o DeployTranslations(Tail(trList))

\* createDevContainer creating the secret after the deployments.
createDevContainerTailSecretLast(trList, create) ==
    DeployTranslations(trList)
    \o <<Op("secrets.Create", DevName)>>
    \o (IF create THEN <<Op("services.CreateDev", DevName)>> ELSE <<>>)
    \o <<Op("pods.GetDevPodInLoop", DevName)>>

\* createDevContainer after the receive on up.hardTerminate.
createDevContainerTail(trList, create) ==
    <<Op("secrets.Create", DevName)>>
    \o DeployTranslations(trList)
    \o (IF create THEN <<Op("services.CreateDev", DevName)>> ELSE <<>>)
    \o <<Op("pods.GetDevPodInLoop", DevName)>>

\* The checks of the deployment without the check for a modification.
CheckDeploymentIgnoringChange(isRetry, d) ==
    IF isRetry /\ ~d.devModeOn THEN "deactivated" ELSE "go on"

\* The checks of the deployment without the stop of a retry.
CheckDeploymentIgnoringRetry(isRetry, d) ==
    IF d.devModeOn /\ d.changed THEN "modified" ELSE "go on"

\* The two checks activate makes of the deployment it got.
CheckDeployment(isRetry, d) ==
    IF isRetry /\ ~d.devModeOn THEN "deactivated"
    ELSE IF d.devModeOn /\ d.changed THEN "modified"
    ELSE "go on"

\* The requests of plan sent in order, the k-th failing with fault.
RunPlan(plan, k, fault) == Exec(NoCluster, plan, 1, k, fault, <<>>)

MaxAttempts == 2

\* What getCurrentDeployment may return: whether the deployment is in dev
\* mode, whether it was changed since the session applied it, whether it is
\* to be created, and the translations computed for it (in the order the
\* map of translations is ranged over).
Translated(name, annotated) == [name |-> name, annotated |-> annotated]

TranslationLists ==
    {<<Translated(DevName, TRUE)>>,
     <<Translated(DevName, FALSE)>>,
     <<Translated(DevName, TRUE), Translated("db", TRUE)>>,
     <<Translated("db", FALSE), Translated(DevName, TRUE)>>}

CurrentDeployments ==
    {d \in [devModeOn : BOOLEAN, changed : BOOLEAN, create : BOOLEAN,
            missing : BOOLEAN, trList : TranslationLists] :
        /\ d.create => ~d.devModeOn
        /\ d.changed => d.devModeOn}

NoDeployment ==
    [devModeOn |-> FALSE, changed |-> FALSE, create |-> FALSE,
     missing |-> FALSE, trList |-> <<>>]

Sessions == [persistentVolume : BOOLEAN, build : BOOLEAN]

ActivateInit ==
    /\ acPc = "call"
    /\ acSession \in Sessions
    /\ acIsRetry = FALSE
    /\ acAttempt = 0
    /\ acD = NoDeployment
    /\ acWasRetry = FALSE
    /\ acOps = <<>>
    /\ acSyncTask = "none"
    /\ acHardTerminate = <<>>
    /\ acRetryLog = <<>>
    /\ acResults = <<>>
    /\ acCommandTasks = {}
    /\ acCommandResult = <<>>

ActivateIdle ==
    /\ acPc = "off"
    /\ acSession = [persistentVolume |-> FALSE, build |-> FALSE]
    /\ acIsRetry = FALSE
    /\ acAttempt = 0
    /\ acD = NoDeployment
    /\ acWasRetry = FALSE
    /\ acOps = <<>>
    /\ acSyncTask = "none"
    /\ acHardTerminate = <<>>
    /\ acRetryLog = <<>>
    /\ acResults = <<>>
    /\ acCommandTasks = {}
    /\ acCommandResult = <<>>

ActivateFaults == {ErrUnavailable, ErrForbidden}

\* activate returns err (NoError: nil); the deferred up.shutdown runs when
\* it was registered.
ActivateReturn(ops, err, deferred) ==
    /\ acOps' = ops \o (IF deferred THEN <<Op("shutdown", DevName)>> ELSE <<>>)
    /\ acResults' = Append(acResults, err)
    /\ acPc' = "returned"

\* A step of activate ends: with an error activate returns it, else the
\* step next follows.
ActivateStep(ops, err, next) ==
    IF err # NoError
    THEN ActivateReturn(ops, err, TRUE)
    ELSE /\ acOps' = ops
         /\ acPc' = next
         /\ UNCHANGED acResults

\* activate is called: the Activating status, the new scope and queues,
\* getCurrentDeployment and the two checks of the deployment.
Activate ==
    /\ acPc = "call"
    /\ acAttempt < MaxAttempts
    /\ acAttempt' = acAttempt + 1
    /\ acWasRetry' = acIsRetry
    /\ acHardTerminate' = <<>>
    /\ acRetryLog' = <<>>
    /\ \E d \in CurrentDeployments, k \in 0..2 :
          LET run == RunPlan(<<Op("state.Activating", DevName),
                               Op("getCurrentDeployment", DevName)>>,
                             k, ErrUnavailable)
          IN  /\ acD' = IF run.err = NoError THEN d ELSE NoDeployment
              /\ IF run.err # NoError
                 THEN ActivateReturn(run.ops, run.err, k = 2)
                 ELSE IF CheckDeployment(acIsRetry, d) = "deactivated"
                 THEN ActivateReturn(run.ops, NoError, TRUE)
                 ELSE IF CheckDeployment(acIsRetry, d) = "modified"
                 THEN ActivateReturn(run.ops, ErrModified, TRUE)
                 ELSE ActivateStep(run.ops, NoError, "image")
              /\ acCommandResult' = IF k = 1 THEN acCommandResult ELSE <<>>
    /\ UNCHANGED <<acSession, acIsRetry, acSyncTask, acCommandTasks>>
    /\ UNCHANGED notActivate

\* Whether activate builds the image: build is set when the image is
\* missing, and the build is made if this is no retry.
BuildWanted(isRetry, build, missing) == ~isRetry /\ (build \/ missing)

\* The image is looked up in the registry (an error other than ErrNotFound
\* is not looked at) and built.
ActivateImage ==
    /\ acPc = "image"
    /\ \E buildFault \in {NoError, ErrForbidden} :
          LET wanted == BuildWanted(acIsRetry, acSession.build, acD.missing)
              ops == Append(acOps,
                         [Op("registry.GetImageTagWithDigest", DevName) EXCEPT
                             !.seen = IF acD.missing THEN 0 ELSE 1])
                     \o (IF wanted
                         THEN <<[Op("buildDevImage", DevName) EXCEPT
                                    !.err = buildFault]>>
                         ELSE <<>>)
          IN  ActivateStep(ops,
                           IF wanted /\ buildFault # NoError
                           THEN <<"error", "building", "dev", "image:">>
                                \o buildFault
                           ELSE NoError,
                           "sync")
    /\ UNCHANGED <<acSession, acIsRetry, acAttempt, acD, acWasRetry, acSyncTask,
                   acHardTerminate, acRetryLog>>
    /\ UNCHANGED <<acCommandTasks, acCommandResult>>
    /\ UNCHANGED notActivate

\* go up.initializeSyncthing(), then setDevContainer.
ActivateStartSync ==
    /\ acPc = "sync"
    /\ acSyncTask' = "running"
    /\ \E k \in 0..1 :
          LET run == RunPlan(<<Op("setDevContainer", DevName)>>, k, ErrForbidden)
          IN  ActivateStep(Append(acOps, Op("go initializeSyncthing", DevName))
                           \o run.ops, run.err, "provision")
    /\ UNCHANGED <<acSession, acIsRetry, acAttempt, acD, acWasRetry,
                   acHardTerminate, acRetryLog>>
    /\ UNCHANGED <<acCommandTasks, acCommandResult>>
    /\ UNCHANGED notActivate

\* The task of initializeSyncthing reports on up.hardTerminate.
ActivateSyncReports ==
    /\ acSyncTask = "running"
    /\ acHardTerminate = <<>>
    /\ \E err \in {NoError, ErrForbidden} : acHardTerminate' = <<err>>
    /\ acSyncTask' = "reported"
    /\ UNCHANGED <<acPc, acSession, acIsRetry, acAttempt, acD, acWasRetry, acOps,
                   acRetryLog, acResults>>
    /\ UNCHANGED <<acCommandTasks, acCommandResult>>
    /\ UNCHANGED notActivate

\* createDevContainer up to the receive on up.hardTerminate.
ActivateProvision ==
    /\ acPc = "provision"
    /\ \E fault \in ActivateFaults :
       \E k \in 0..Len(createDevContainerHead(acSession.persistentVolume)) :
          LET run == RunPlan(createDevContainerHead(acSession.persistentVolume),
                             k, fault)
          IN  ActivateStep(acOps \o run.ops,
                           IF run.err # NoError THEN DevModeError(run.err)
                           ELSE NoError,
                           "hardTerminate")
    /\ UNCHANGED <<acSession, acIsRetry, acAttempt, acD, acWasRetry, acSyncTask,
                   acHardTerminate, acRetryLog>>
    /\ UNCHANGED <<acCommandTasks, acCommandResult>>
    /\ UNCHANGED notActivate

\* createDevContainer going on without the receive on up.hardTerminate.
ActivateHardTerminateNotAwaited ==
    /\ acPc = "hardTerminate"
    /\ ActivateStep(acOps, NoError, "apply")
    /\ UNCHANGED <<acSession, acIsRetry, acAttempt, acD, acWasRetry, acSyncTask,
                   acHardTerminate, acRetryLog>>
    /\ UNCHANGED <<acCommandTasks, acCommandResult>>
    /\ UNCHANGED notActivate

\* initSyncErr := <-up.hardTerminate
ActivateHardTerminate ==
    /\ acPc = "hardTerminate"
    /\ acHardTerminate # <<>>
    /\ acHardTerminate' = <<>>
    /\ ActivateStep(Append(acOps, [Op("<-hardTerminate", DevName) EXCEPT
                                      !.err = acHardTerminate[1]]),
                    IF acHardTerminate[1] # NoError
                    THEN DevModeError(acHardTerminate[1]) ELSE NoError,
                    "apply")
    /\ UNCHANGED <<acSession, acIsRetry, acAttempt, acD, acWasRetry, acSyncTask,
                   acRetryLog>>
    /\ UNCHANGED <<acCommandTasks, acCommandResult>>
    /\ UNCHANGED notActivate

\* The rest of createDevContainer: the secret, the deployments, the
\* service, the pod.
ActivateApply ==
    /\ acPc = "apply"
    /\ \E fault \in ActivateFaults :
       \E k \in 0..Len(createDevContainerTail(acD.trList, acD.create)) :
          LET run == RunPlan(createDevContainerTail(acD.trList, acD.create),
                             k, fault)
          IN  ActivateStep(acOps \o run.ops,
                           IF run.err # NoError THEN DevModeError(run.err)
                           ELSE NoError,
                           "watch")
    /\ UNCHANGED <<acSession, acIsRetry, acAttempt, acD, acWasRetry, acSyncTask,
                   acHardTerminate, acRetryLog>>
    /\ UNCHANGED <<acCommandTasks, acCommandResult>>
    /\ UNCHANGED notActivate

\* The Pulling events the watcher handles in one wait, at most.
MaxPullingEvents == 2

\* A watcher that writes Attaching when the volume is attached, after the
\* Pulling events seen so far.
WatcherStatusWritesAttachLate(persistentVolume, pulling) ==
    [i \in 1..pulling |-> Op("state.Pulling", DevName)]
    \o (IF persistentVolume THEN <<Op("state.Attaching", DevName)>> ELSE <<>>)

\* The writes of the state file by waitUntilDevelopmentContainerIsRunning:
\* Attaching before it subscribes, if the session has a persistent volume,
\* and Pulling at every Pulling event.
WatcherStatusWrites(persistentVolume, pulling) ==
    (IF persistentVolume THEN <<Op("state.Attaching", DevName)>> ELSE <<>>)
    \o [i \in 1..pulling |-> Op("state.Pulling", DevName)]

\* What waitUntilDevelopmentContainerIsRunning may return.
WatchOutcomes ==
    {NoError, ErrCanceled, ErrDevPodDeleted,
     <<"Back-off", "pulling", "image", "app:dev">>}

\* devMode waits for the pod; then up.isRetry = true.
ActivateWatch ==
    /\ acPc = "watch"
    /\ \E err \in WatchOutcomes, pulling \in 0..MaxPullingEvents :
          /\ ActivateStep(Append(acOps
                              \o WatcherStatusWrites(acSession.persistentVolume,
                                                     pulling),
                              [Op("waitUntilDevelopmentContainerIsRunning",
                                  DevName) EXCEPT !.err = err]),
                          IF err # NoError THEN DevModeError(err) ELSE NoError,
                          "forwards")
          /\ acIsRetry' = (acIsRetry \/ err = NoError)
    /\ UNCHANGED <<acSession, acAttempt, acD, acWasRetry, acSyncTask,
                   acHardTerminate, acRetryLog>>
    /\ UNCHANGED <<acCommandTasks, acCommandResult>>
    /\ UNCHANGED notActivate

\* up.forwards, and the probe and the pod deletion after a failed ssh
\* connection; then go up.cleanCommand.
ActivateForwards ==
    /\ acPc = "forwards"
    /\ \E err \in {NoError, ErrSSHConnectError, ErrForbidden},
          probe \in {ErrLostSyncthing, ErrForbidden}, k \in 0..1 :
          LET fwd == [Op("forwards", DevName) EXCEPT !.err = err]
              del == RunPlan(<<Op("pods.Destroy", DevName)>>, k, ErrUnavailable)
          IN  IF err = NoError
              THEN ActivateStep(acOps \o <<fwd, Op("go cleanCommand", DevName)>>,
                                NoError, "synchronize")
              ELSE IF err # ErrSSHConnectError
              THEN ActivateReturn(Append(acOps, fwd),
                       <<"couldn't", "connect", "to", "your", "development",
                         "container:">> \o err, TRUE)
              ELSE IF probe # ErrLostSyncthing
              THEN ActivateReturn(acOps \o <<fwd, Op("checkOktetoStartError",
                                                     DevName)>>, probe, TRUE)
              ELSE ActivateReturn(
                       acOps \o <<fwd, Op("checkOktetoStartError", DevName)>>
                             \o del.ops,
                       IF del.err # NoError
                       THEN <<"error", "recreating", "development",
                              "container:">> \o del.err
                       ELSE probe,
                       TRUE)
    /\ UNCHANGED <<acSession, acIsRetry, acAttempt, acD, acWasRetry, acSyncTask,
                   acHardTerminate, acRetryLog>>
    /\ UNCHANGED <<acCommandTasks, acCommandResult>>
    /\ UNCHANGED notActivate

\* What up.sync may return.
SessionOutcomes == {NoError, ErrLostSyncthing, ErrCommandFailed, ErrForbidden}

\* up.sync; its error goes through shouldRetry.
ActivateSynchronize ==
    /\ acPc = "synchronize"
    /\ \E err \in SessionOutcomes, healthy \in BOOLEAN :
          LET sr == shouldRetry(err, healthy)
              ops == Append(acOps, [Op("sync", DevName) EXCEPT !.err = err])
          IN  /\ acRetryLog' =
                    IF err = NoError THEN acRetryLog
                    ELSE Append(acRetryLog,
                             [err |-> err, healthy |-> healthy,
                              retry |-> sr.retry, pinged |-> sr.pinged])
              /\ ActivateStep(IF sr.pinged THEN Append(ops, Op("Ping", DevName))
                              ELSE ops,
                              IF err = NoError THEN NoError
                              ELSE IF sr.retry THEN ErrLostSyncthing
                              ELSE err,
                              "command")
    /\ UNCHANGED <<acSession, acIsRetry, acAttempt, acD, acWasRetry, acSyncTask,
                   acHardTerminate>>
    /\ UNCHANGED <<acCommandTasks, acCommandResult>>
    /\ UNCHANGED notActivate

\* The end of activate deleting the pod on every retry.
AfterCommandAlwaysDestroys(prevError, retry, persistentVolume) ==
    IF retry THEN [destroy |-> TRUE, err |-> ErrLostSyncthing]
    ELSE [destroy |-> FALSE, err |-> prevError]

\* The end of activate: whether pods.Destroy is called, and what activate
\* returns if no call fails.
AfterCommand(prevError, retry, persistentVolume) ==
    IF retry
    THEN [destroy |-> ~persistentVolume, err |-> ErrLostSyncthing]
    ELSE [destroy |-> FALSE, err |-> prevError]

\* What runCommand may return.
CommandOutcomes == {NoError, ErrCommandFailed}

\* What ends the wait other than the command: the sync engine is lost, or
\* the connection fails.
InterruptOutcomes == {ErrLostSyncthing, ErrForbidden}

\* waitUntilExitOrInterrupt, on the queue up.CommandResult as it is when
\* the task of this call (task) has been started: it receives what the
\* queue holds, else what the task sends when its command ends, or it is
\* ended by another signal. Each outcome: the error returned, the task
\* whose value was received (0 if none was), and whether the task of this
\* call is still to send.
waitUntilExitOrInterrupt(queue, task) ==
    (IF queue # <<>>
     THEN {[err |-> queue[1].err, from |-> queue[1].task, left |-> TRUE]}
     ELSE {[err |-> e, from |-> task, left |-> FALSE] : e \in CommandOutcomes})
    \cup {[err |-> e, from |-> 0, left |-> TRUE] : e \in InterruptOutcomes}

\* The task of the user's command is started, waitUntilExitOrInterrupt
\* returns prevError, and activate ends through shouldRetry.
ActivateCommand ==
    /\ acPc = "command"
    /\ \E wait \in waitUntilExitOrInterrupt(acCommandResult, acAttempt),
          healthy \in BOOLEAN, k \in 0..1 :
          LET prevError == wait.err
              sr == shouldRetry(prevError, healthy)
              ops == acOps \o <<Op("go runCommand", DevName),
                                [Op("waitUntilExitOrInterrupt", DevName)
                                    EXCEPT !.err = prevError,
                                           !.data = <<wait.from>>]>>
                     \o (IF sr.pinged THEN <<Op("Ping", DevName)>> ELSE <<>>)
              del == RunPlan(<<Op("pods.Destroy", DevName)>>, k, ErrUnavailable)
              end == AfterCommand(prevError, sr.retry,
                                  acSession.persistentVolume)
          IN  /\ acRetryLog' = Append(acRetryLog,
                     [err |-> prevError, healthy |-> healthy,
                      retry |-> sr.retry, pinged |-> sr.pinged])
              /\ acCommandTasks' = IF wait.left
                                   THEN acCommandTasks \cup {acAttempt}
                                   ELSE acCommandTasks
              /\ acCommandResult' = IF wait.from # 0 THEN <<>>
                                    ELSE acCommandResult
              /\ IF end.destroy
                 THEN ActivateReturn(ops \o del.ops,
                          IF del.err # NoError THEN del.err ELSE end.err,
                          TRUE)
                 ELSE ActivateReturn(ops, end.err, TRUE)
    /\ UNCHANGED <<acSession, acIsRetry, acAttempt, acD, acWasRetry, acSyncTask,
                   acHardTerminate>>
    /\ UNCHANGED notActivate

\* The command of a task that has not sent yet ends, and the task sends
\* the result on up.CommandResult: on the queue that field holds when the
\* command has ended (late) or on the one it held when the task started.
\* The queue of an earlier call is read by nobody.
ActivateCommandEnds ==
    /\ \E task \in acCommandTasks, err \in CommandOutcomes, late \in BOOLEAN :
          /\ acCommandTasks' = acCommandTasks \ {task}
          /\ IF late \/ task = acAttempt
             THEN /\ acCommandResult = <<>>
                  /\ acCommandResult' = <<[task |-> task, err |-> err]>>
             ELSE UNCHANGED acCommandResult
    /\ UNCHANGED <<acPc, acSession, acIsRetry, acAttempt, acD, acWasRetry, acOps,
                   acSyncTask, acHardTerminate, acRetryLog, acResults>>
    /\ UNCHANGED notActivate

\* The caller's loop calls activate again after a transient error.
ActivateAgain ==
    /\ acPc = "returned"
    /\ acAttempt < MaxAttempts
    /\ LET err == acResults[Len(acResults)]
       IN  err = ErrLostSyncthing \/ IsTransient(err)
    /\ acPc' = "call"
    /\ UNCHANGED <<acSession, acIsRetry, acAttempt, acD, acWasRetry, acOps,
                   acSyncTask, acHardTerminate, acRetryLog, acResults>>
    /\ UNCHANGED <<acCommandTasks, acCommandResult>>
    /\ UNCHANGED notActivate

ActivateNext ==
    \/ Activate
    \/ ActivateImage
    \/ ActivateStartSync
    \/ ActivateSyncReports
    \/ ActivateProvision
    \/ ActivateHardTerminate
    \/ ActivateApply
    \/ ActivateWatch
    \/ ActivateForwards
    \/ ActivateSynchronize
    \/ ActivateCommand
    \/ ActivateCommandEnds
    \/ ActivateAgain

(***************************************************************************)
(* Claims about activate                                                   *)
(***************************************************************************)
\* An operation of this kind on this object ended without error before the
\* i-th operation of the call.
Done(kind, name, i) ==
    \E j \in 1..(i - 1) :
        /\ acOps[j].op = kind
        /\ acOps[j].name = name
        /\ acOps[j].err = NoError

ProvisioningOps == {"volumes.Create", "secrets.Create"}

ApplicationOps == {"deployments.Deploy", "deployments.UpdateOktetoRevision"}

\* C11: in a call of activate, when a translated deployment is applied the
\* secret has been created, and the volume claim too when the session has a
\* persistent volume, and nothing is provisioned afterwards; when the wait
\* for the pod begins every translated deployment has been applied (and its
\* revision updated when it carries the annotation), and nothing is applied
\* afterwards.
C11_ProvisionThenApplyThenWait ==
    \A i \in DOMAIN acOps :
        /\ acOps[i].op \in ApplicationOps =>
              /\ Done("secrets.Create", DevName, i)
              /\ acSession.persistentVolume => Done("volumes.Create", DevName, i)
              /\ \A j \in i..Len(acOps) : acOps[j].op \notin ProvisioningOps
        /\ acOps[i].op = "waitUntilDevelopmentContainerIsRunning" =>
              /\ \A t \in Range(acD.trList) :
                    /\ Done("deployments.Deploy", t.name, i)
                    /\ t.annotated =>
                          Done("deployments.UpdateOktetoRevision", t.name, i)
              /\ \A j \in i..Len(acOps) : acOps[j].op \notin ApplicationOps

C11_Witness ==
    /\ acSession.persistentVolume
    /\ Len(acD.trList) = 2
    /\ \E i \in DOMAIN acOps :
          /\ acOps[i].op = "waitUntilDevelopmentContainerIsRunning"
          /\ acOps[i].err = NoError

\* C12: every call of shouldRetry answers true exactly for ErrLostSyncthing
\* and for ErrCommandFailed with a failing probe of the sync engine (so not
\* for nil, for a failed command with a healthy sync engine, or for another
\* error), and probes the sync engine exactly for ErrCommandFailed.
C12_RetryPredicate ==
    \A i \in DOMAIN acRetryLog :
        LET r == acRetryLog[i]
        IN  /\ r.retry <=> \/ r.err = ErrLostSyncthing
                           \/ r.err = ErrCommandFailed /\ ~r.healthy
            /\ r.pinged <=> r.err = ErrCommandFailed

C12_Witness ==
    \E i \in DOMAIN acRetryLog :
        /\ acRetryLog[i].err = ErrCommandFailed
        /\ acRetryLog[i].healthy
        /\ ~acRetryLog[i].retry
        /\ acRetryLog[i].pinged

\* getCurrentDeployment returned the deployment of this call.
GotDeployment ==
    /\ Len(acOps) >= 2
    /\ acOps[2].op = "getCurrentDeployment"
    /\ acOps[2].err = NoError

\* The call ended after getCurrentDeployment: nothing was built, started,
\* provisioned or applied, and the scope was torn down.
StoppedAfterLookup ==
    /\ acPc \in {"returned", "call"}
    /\ [i \in DOMAIN acOps |-> acOps[i].op] =
           <<"state.Activating", "getCurrentDeployment", "shutdown">>

\* C13: a call of activate that finds the deployment in dev mode and
\* changed returns the error of a modified deployment, having built no
\* image, started no sync engine, provisioned nothing and applied nothing.
C13_ModifiedDeploymentIsNotOverwritten ==
    (GotDeployment /\ acD.devModeOn /\ acD.changed) =>
        /\ StoppedAfterLookup
        /\ acResults[Len(acResults)] = ErrModified

C13_Witness ==
    /\ GotDeployment /\ acD.devModeOn /\ acD.changed
    /\ acPc = "returned"

\* C14: a call of activate that is a retry and finds the deployment out of
\* dev mode returns nil, having built no image, started no sync engine,
\* provisioned nothing and applied nothing, and its scope is torn down.
C14_DeactivatedRetryIsCleanStop ==
    (GotDeployment /\ acWasRetry /\ ~acD.devModeOn) =>
        /\ StoppedAfterLookup
        /\ acResults[Len(acResults)] = NoError

C14_Witness ==
    /\ GotDeployment /\ acWasRetry /\ ~acD.devModeOn
    /\ acPc = "returned"
    /\ acAttempt = 2

\* The position of the wait for the command among the operations of the
\* call, 0 if the call did not get there.
CommandWait ==
    IF \E i \in DOMAIN acOps : acOps[i].op = "waitUntilExitOrInterrupt"
    THEN CHOOSE i \in DOMAIN acOps : acOps[i].op = "waitUntilExitOrInterrupt"
    ELSE 0

\* The deletions of the pod requested after the wait for the command.
PodDeletions ==
    {i \in DOMAIN acOps : i > CommandWait /\ acOps[i].op = "pods.Destroy"}

\* C21: at the end of a call of activate that waited for the command, the
\* pod is deleted exactly when the result satisfies the retry predicate and
\* the session has no persistent volume; activate returns the sync-lost
\* signal whenever the result satisfies the retry predicate, with or
\* without a persistent volume (or the error of the deletion of the pod if
\* that fails), and the result itself otherwise.
C21_RetrySignalsSyncLost ==
    (acPc = "returned" /\ CommandWait > 0) =>
        LET r == acRetryLog[Len(acRetryLog)]
            result == acResults[Len(acResults)]
        IN  /\ r.err = acOps[CommandWait].err
            /\ PodDeletions # {} <=> (r.retry /\ ~acSession.persistentVolume)
            /\ \A i \in PodDeletions :
                  acOps[i].err # NoError => result = acOps[i].err
            /\ (\A i \in PodDeletions : acOps[i].err = NoError) =>
                  result = IF r.retry THEN ErrLostSyncthing ELSE r.err

C21_Witness ==
    /\ acPc = "returned" /\ CommandWait > 0
    /\ acSession.persistentVolume
    /\ acRetryLog[Len(acRetryLog)].err = ErrCommandFailed
    /\ acRetryLog[Len(acRetryLog)].retry
    /\ acResults[Len(acResults)] = ErrLostSyncthing

\* C21 as stated: the sync-lost signal is returned only when the result
\* satisfies the retry predicate and the session has no persistent volume;
\* in every other case activate returns the result itself.
C21_AsClaimed ==
    (acPc = "returned" /\ CommandWait > 0) =>
        LET r == acRetryLog[Len(acRetryLog)]
            result == acResults[Len(acResults)]
        IN  /\ PodDeletions # {} <=> (r.retry /\ ~acSession.persistentVolume)
            /\ (\A i \in PodDeletions : acOps[i].err = NoError) =>
                  result = IF r.retry /\ ~acSession.persistentVolume
                           THEN ErrLostSyncthing ELSE r.err

\* The lookups of the image by this call that found no image.
MissingImageLookups ==
    {i \in DOMAIN acOps : /\ acOps[i].op = "registry.GetImageTagWithDigest"
                          /\ acOps[i].seen = 0}

\* The operation after the i-th of the call is the build of the image.
BuildFollows(i) == i < Len(acOps) /\ acOps[i + 1].op = "buildDevImage"

\* C22: every call of activate that finds the image missing from the
\* registry builds it, whatever the caller's build flag and whether or not
\* the call is a retry.
C22_MissingImageIsBuilt == \A i \in MissingImageLookups : BuildFollows(i)

\* The operations of createDevContainer that follow its receive on
\* up.hardTerminate, and the wait for the pod.
AfterHardTerminate ==
    {"secrets.Create", "deployments.Deploy",
     "deployments.UpdateOktetoRevision", "services.CreateDev",
     "pods.GetDevPodInLoop", "waitUntilDevelopmentContainerIsRunning"}

\* The receives on up.hardTerminate by this call.
Received == {i \in DOMAIN acOps : acOps[i].op = "<-hardTerminate"}

\* C23: after launching the sync engine task activate resolves the main
\* container, creates the volume and computes the translations without a
\* signal from the task, and then waits for the task's report on
\* up.hardTerminate: the secret is created, the deployments applied and the
\* pod resolved only after a nil report was received, and a report of an
\* error ends the call with that error.
C23_SecretAwaitsSyncReport ==
    /\ \A i \in DOMAIN acOps :
          acOps[i].op \in AfterHardTerminate =>
              \E j \in Received : j < i /\ acOps[j].err = NoError
    /\ \A j \in Received :
          /\ \E i \in 1..(j - 1) : acOps[i].op = "go initializeSyncthing"
          /\ \E i \in 1..(j - 1) : acOps[i].op = "deployments.TranslateDevMode"
          /\ acOps[j].err # NoError =>
                /\ acPc \in {"returned", "call"}
                /\ acOps[j + 1].op = "shutdown"
                /\ acResults[Len(acResults)] = DevModeError(acOps[j].err)

C23_Witness ==
    /\ acPc = "watch"
    /\ acAttempt = 1
    /\ \E j \in Received : acOps[j].err = NoError
    /\ \E i \in DOMAIN acOps : acOps[i].op = "secrets.Create"

\* C23 as stated: provisioning never waits for the sync engine task, so
\* once the translations are computed createDevContainer can go on to
\* the secret whether or not the task has reported.
C23_ProvisioningNeverWaits ==
    acPc = "hardTerminate" => ENABLED ActivateHardTerminate

\* The place of a status in the order Activating, Starting, Attaching,
\* Pulling (0 for an operation that writes no status).
StatusRank(op) ==
    CASE op = "state.Activating" -> 1
      [] op = "state.Starting" -> 2
      [] op = "state.Attaching" -> 3
      [] op = "state.Pulling" -> 4
      [] OTHER -> 0

\* C28: among the operations of one call of activate, a write of a status
\* is never followed by the write of an earlier status, and Activating is
\* written by the first operation of the call only.
C28_StatusMovesForward ==
    /\ \A i, j \in DOMAIN acOps :
          (i < j /\ StatusRank(acOps[i].op) > 0 /\ StatusRank(acOps[j].op) > 0)
              => StatusRank(acOps[i].op) <= StatusRank(acOps[j].op)
    /\ \A i \in DOMAIN acOps : acOps[i].op = "state.Activating" <=> i = 1

C28_Witness ==
    /\ acAttempt = 2
    /\ \E i, j, k \in DOMAIN acOps :
          /\ i < j /\ j < k
          /\ acOps[i].op = "state.Starting"
          /\ acOps[j].op = "state.Attaching"
          /\ acOps[k].op = "state.Pulling"

\* The waits of this call that received a value from up.CommandResult.
ReceivedResults ==
    {i \in DOMAIN acOps : /\ acOps[i].op = "waitUntilExitOrInterrupt"
                          /\ acOps[i].data # <<0>>}

\* C30: every value a call of activate receives from its queue of command
\* results was sent by the command task that this same call started; the
\* task of an earlier call never sends into the queue of a later call.
C30_ResultComesFromOwnTask ==
    \A i \in ReceivedResults : acOps[i].data = <<acAttempt>>

\* C18: when the wait for the pod ends because the context was cancelled,
\* activate returns the cancellation error itself.
C18_CancellationIsNotWrapped ==
    \A i \in DOMAIN acOps :
        (/\ acOps[i].op = "waitUntilDevelopmentContainerIsRunning"
         /\ acOps[i].err = ErrCanceled
         /\ acPc = "returned") =>
            acResults[Len(acResults)] = ErrCanceled

(***************************************************************************)
(* Specifications: one per component                                       *)
(***************************************************************************)
InitEnv ==
    /\ EnvInit
    /\ TrIdle
    /\ VolIdle
    /\ WatchIdle
    /\ StackIdle
    /\ ActivateIdle

SpecEnv == InitEnv /\ [][EnvNext]_vars

InitTranslate ==
    /\ TrInit
    /\ EnvIdle
    /\ VolIdle
    /\ WatchIdle
    /\ StackIdle
    /\ ActivateIdle

SpecTranslate == InitTranslate /\ [][TrNext]_vars

InitVolumes ==
    /\ VolInit
    /\ EnvIdle
    /\ TrIdle
    /\ WatchIdle
    /\ StackIdle
    /\ ActivateIdle

SpecVolumes == InitVolumes /\ [][VolNext]_vars

InitWatch ==
    /\ WatchInit
    /\ EnvIdle
    /\ TrIdle
    /\ VolIdle
    /\ StackIdle
    /\ ActivateIdle

SpecWatch == InitWatch /\ [][WatchNext]_vars

InitStack ==
    /\ StackInit
    /\ EnvIdle
    /\ TrIdle
    /\ VolIdle
    /\ WatchIdle
    /\ ActivateIdle

SpecStack == InitStack /\ [][StackNext]_vars

InitActivate ==
    /\ ActivateInit
    /\ EnvIdle
    /\ TrIdle
    /\ VolIdle
    /\ WatchIdle
    /\ StackIdle

SpecActivate == InitActivate /\ [][ActivateNext]_vars

=============================================================================
